---- MODULE Spec2Model ----
(***************************************************************************)
(* noop-discovery: the Application graph (lib/app.js), Component and       *)
(* Resource validation, and the watch engine's change attribution.         *)
(*                                                                         *)
(* Strings the code slices (paths, patterns, `key=value` words) are        *)
(* sequences of tokens, so that startsWith / slice / split behave as they  *)
(* do on JavaScript strings: "/app/api-v2/x.txt" is                        *)
(* <<"/","app","/","api","-","v2","/","x.txt">>.  A token that a slice of   *)
(* one character may cut off is always a one-character token.              *)
(***************************************************************************)
EXTENDS Integers, Sequences, FiniteSets, TLC

\* ------------------------------------------------------------------ strings

SeqMax(S) == CHOOSE x \in S : \A y \in S : y <= x

\* String.prototype.startsWith
StartsWith(s, p) == Len(p) <= Len(s) /\ SubSeq(s, 1, Len(p)) = p

\* String.prototype.slice(n), n >= 0
Slice(s, n) == IF n >= Len(s) THEN <<>> ELSE SubSeq(s, n + 1, Len(s))

\* String.prototype.includes
Includes(s, sub) ==
  \E i \in 1..Len(s) : i + Len(sub) - 1 <= Len(s) /\ SubSeq(s, i, i + Len(sub) - 1) = sub

LastSlash(s) ==
  LET at == {i \in 1..Len(s) : s[i] = "/"} IN IF at = {} THEN 0 ELSE SeqMax(at)

\* path.parse(file).dir for an absolute path below the filesystem root
Dir(file) == IF LastSlash(file) <= 1 THEN SubSeq(file, 1, LastSlash(file))
             ELSE SubSeq(file, 1, LastSlash(file) - 1)

\* path.parse(file).base
Base(file) == Slice(file, LastSlash(file))

\* s.split(sep) for a one-token separator; '' splits to [''] as in JavaScript
RECURSIVE SplitOn(_, _)
SplitOn(s, sep) ==
  LET at == {i \in 1..Len(s) : s[i] = sep} IN
  IF at = {} THEN <<s>>
  ELSE LET i == CHOOSE x \in at : \A y \in at : x <= y
       IN <<SubSeq(s, 1, i - 1)>> \o SplitOn(Slice(s, i), sep)

\* ------------------------------------------------- Pattern Matcher (ignore)

\* One glob segment against one path segment; "*" stands for any run of
\* characters other than "/".
RECURSIVE GlobMatch(_, _)
GlobMatch(pat, seg) ==
  IF pat = <<>> THEN seg = <<>>
  ELSE IF Head(pat) = "*"
       THEN \E k \in 0..Len(seg) : GlobMatch(Tail(pat), Slice(seg, k))
       ELSE seg # <<>> /\ Head(seg) = Head(pat) /\ GlobMatch(Tail(pat), Tail(seg))

\* A rule of an ignore() instance, made from one pattern line: a leading "!"
\* negates; a pattern holding a "/" before its end is anchored to the scope
\* directory, any other matches a name at any depth.
MakeRule(pattern) ==
  LET negative == pattern # <<>> /\ Head(pattern) = "!"
      body     == IF negative THEN Tail(pattern) ELSE pattern
      lead     == body # <<>> /\ Head(body) = "/"
      inner    == IF lead THEN Tail(body) ELSE body
  IN [negative |-> negative,
      anchored |-> lead \/ (\E i \in 1..(Len(inner) - 1) : inner[i] = "/"),
      segs     |-> SplitOn(inner, "/")]

\* The rule's regular expression tested on a path given as its segments.
RuleMatches(rule, segs) ==
  IF rule.anchored
  THEN /\ Len(segs) = Len(rule.segs)
       /\ \A i \in 1..Len(segs) : GlobMatch(rule.segs[i], segs[i])
  ELSE /\ Len(rule.segs) = 1
       /\ segs # <<>>
       /\ GlobMatch(rule.segs[1], segs[Len(segs)])

\* The last rule that matches decides.
TestOne(rules, segs) ==
  LET hit == {i \in 1..Len(rules) : RuleMatches(rules[i], segs)}
  IN hit # {} /\ ~rules[SeqMax(hit)].negative

\* ig.ignores(relativePath): a path is ignored when it or one of its parent
\* directories is.
Ignores(rules, rel) ==
  LET segs == SplitOn(rel, "/")
  IN \E k \in 1..Len(segs) : TestOne(rules, SubSeq(segs, 1, k))

\* ignore().add(patterns)
IgnoreAdd(patterns) == [i \in 1..Len(patterns) |-> MakeRule(patterns[i])]

\* -------------------------------------------------------------- Directives

Undefined == "undefined"
NoError == [name |-> "none"]

\* Directive (lib/directive.js): one parsed manifest line.  `words` are the
\* line's whitespace-separated words, each a token sequence.
WordStr(w) == IF Len(w) = 1 THEN w[1] ELSE Undefined

\* the value of the first `key=value` word for `key`, or Undefined
NamedParam(words, key) ==
  LET at == {i \in 1..Len(words) :
               Len(words[i]) = 3 /\ words[i][1] = key /\ words[i][2] = "="}
  IN IF at = {} THEN Undefined
     ELSE words[CHOOSE i \in at : \A j \in at : i <= j][3]

\* every `setting=<k=v>` word's <k=v>, in order
SettingParams(words) ==
  LET RECURSIVE Collect(_)
      Collect(ws) ==
        IF ws = <<>> THEN <<>>
        ELSE LET w == Head(ws)
             IN (IF Len(w) >= 2 /\ w[1] = "setting" /\ w[2] = "="
                 THEN <<Slice(w, 2)>> ELSE <<>>) \o Collect(Tail(ws))
  IN Collect(words)

\* the number that parseInt / parseFloat give for text that is no number
NaN == 0 - 1

ParseIntTable ==
  ("80" :> 80) @@ ("8080" :> 8080) @@ ("3000" :> 3000) @@ ("128" :> 128) @@
  ("256" :> 256) @@ ("512" :> 512)

\* parseInt of a word
ParseInt(w) == IF WordStr(w) \in DOMAIN ParseIntTable THEN ParseIntTable[WordStr(w)]
               ELSE NaN

\* parseFloat of a word, in thousandths (0.1 is 100)
ParseFloatTable == ("0.1" :> 100) @@ ("0.5" :> 500) @@ ("1" :> 1000) @@ ("2" :> 2000)

ParseFloat(w) == IF WordStr(w) \in DOMAIN ParseFloatTable
                 THEN ParseFloatTable[WordStr(w)] ELSE NaN

Arg(args, i) == IF i <= Len(args) THEN args[i] ELSE <<>>

\* the command-specific named parameters
DirectiveParams(cmd, args) ==
  CASE cmd = "COMPONENT" -> [name |-> WordStr(Arg(args, 1)), type |-> WordStr(Arg(args, 2))]
    [] cmd = "RESOURCE"  -> [name |-> NamedParam(args, "name"),
                             type |-> NamedParam(args, "type"),
                             setting |-> SettingParams(args)]
    [] cmd = "ENV"       ->
         LET kv == SplitOn(Arg(args, 1), "=")
         IN [key |-> WordStr(kv[1]),
             defaultValue |-> IF Len(kv) > 1 THEN WordStr(kv[2]) ELSE Undefined,
             secret |-> Len(args) > 1 /\ args[2] = <<"SECRET">>]
    [] cmd = "EXPOSE"    -> [port |-> ParseInt(Arg(args, 1))]
    [] cmd \in {"CPU", "MEMORY"} -> [units |-> Arg(args, 1)]
    [] cmd = "LIFECYCLE" -> [lifecycle |-> WordStr(Arg(args, 1))]
    [] cmd = "CRON"      -> [cron |-> args]
    [] cmd = "STATIC"    -> [contentDirectory |-> Arg(args, 1)]
    [] cmd = "ROUTE"     -> [pattern |-> Arg(args, 1), method |-> WordStr(Arg(args, 2))]
    [] OTHER             -> [none |-> TRUE]

NewDirective(words, file, lineNumber) ==
  [cmd        |-> WordStr(words[1]),
   args       |-> Tail(words),
   params     |-> DirectiveParams(WordStr(words[1]), Tail(words)),
   file       |-> file,
   lineNumber |-> lineNumber]

\* a manifest line that is neither blank nor a '#' comment
IsDirectiveLine(words) == words # <<>> /\ words[1] # <<>> /\ words[1][1] # "#"

\* Manifest.discover's parse: one Directive per directive line, numbered by
\* its line in the file.
ParseDirectives(lines, file) ==
  LET RECURSIVE From(_)
      From(i) ==
        IF i > Len(lines) THEN <<>>
        ELSE (IF IsDirectiveLine(lines[i])
              THEN <<NewDirective(lines[i], file, i)>> ELSE <<>>) \o From(i + 1)
  IN From(1)

\* the component blocks of a directive sequence: each starts at a COMPONENT
\* directive and runs to the next one or to the end
ComponentBlocks(directives) ==
  LET starts == {i \in 1..Len(directives) : directives[i].cmd = "COMPONENT"}
      RECURSIVE From(_)
      From(i) ==
        IF i > Len(directives) THEN <<>>
        ELSE IF i \notin starts THEN From(i + 1)
        ELSE LET later == {j \in starts : j > i}
                 last  == IF later = {} THEN Len(directives)
                          ELSE (CHOOSE j \in later : \A k \in later : j <= k) - 1
             IN <<SubSeq(directives, i, last)>> \o From(last + 1)
  IN From(1)

\* ------------------------------------------------------------------- maps

\* a JavaScript object used as a map: a function on the keys set so far
EmptyMap == <<>>
Has(m, k) == k \in DOMAIN m
Put(m, k, v) == [x \in DOMAIN m \cup {k} |-> IF x = k THEN v ELSE m[x]]

\* --------------------------------------------------------------- Resource

resourceTypes ==
  [s3         |-> [keys |-> <<>>, required |-> {}, enum |-> EmptyMap],
   mysql      |-> [keys |-> <<>>, required |-> {}, enum |-> EmptyMap],
   dynamodb   |-> [keys |-> <<"hashKeyName", "hashKeyType", "rangeKeyName", "rangeKeyType">>,
                   required |-> {"hashKeyName", "hashKeyType"},
                   enum |-> ("hashKeyType" :> {<<"S">>, <<"N">>, <<"B">>}) @@
                            ("rangeKeyType" :> {<<"S">>, <<"N">>, <<"B">>})],
   postgresql |-> [keys |-> <<>>, required |-> {}, enum |-> EmptyMap]]

ResourceError(kind, name, detail) ==
  [name |-> "ResourceError", kind |-> kind, resource |-> name, detail |-> detail]

\* new Resource(name); `id` is the object's identity
NewResource(name, id) ==
  [id |-> id, name |-> name, type |-> "null", settings |-> EmptyMap, directives |-> <<>>]

\* variant: every register makes a new Resource
RegisterFresh(registry, nextId, directive) ==
  LET name     == directive.params.name
      resource == NewResource(name, nextId)
      pushed   == [resource EXCEPT !.directives = Append(@, directive)]
      dtype    == directive.params.type
      typed    == IF dtype # Undefined THEN [pushed EXCEPT !.type = dtype] ELSE pushed
  IN [registry |-> Put(registry, name, typed), nextId |-> nextId + 1,
      err |-> NoError, id |-> typed.id]

\* Resource.register(component, directive, done) on the registry
\* app.resources: the registry afterwards, the object handed to done, and
\* the error handed to done.
Register(registry, nextId, directive) ==
  LET name     == directive.params.name
      fresh    == ~Has(registry, name)
      resource == IF fresh THEN NewResource(name, nextId) ELSE registry[name]
      pushed   == [resource EXCEPT !.directives = Append(@, directive)]
      dtype    == directive.params.type
      setType  == pushed.type = "null" /\ dtype # Undefined
      conflict == pushed.type # "null" /\ dtype # Undefined /\ pushed.type # dtype
      after    == IF setType THEN [pushed EXCEPT !.type = dtype] ELSE pushed
  IN [registry |-> Put(registry, name, after),
      nextId   |-> IF fresh THEN nextId + 1 ELSE nextId,
      err      |-> IF conflict THEN ResourceError("AlreadyDeclared", name, pushed.type)
                   ELSE NoError,
      id       |-> after.id]

\* /^(.+)=(.+)$/ on one setting: greedy, so the key runs to the last "=" that
\* leaves a value
SettingMatch(setting) ==
  LET at == {i \in 2..(Len(setting) - 1) : setting[i] = "="}
  IN IF at = {} THEN [ok |-> FALSE]
     ELSE [ok |-> TRUE,
           key |-> WordStr(SubSeq(setting, 1, SeqMax(at) - 1)),
           value |-> Slice(setting, SeqMax(at))]

\* variant: a later value replaces the recorded one
MergeSettingLastWins(settings, schema, setting) ==
  LET m == SettingMatch(setting)
  IN IF ~m.ok THEN settings
     ELSE IF m.key \notin {schema.keys[i] : i \in 1..Len(schema.keys)} THEN settings
     ELSE Put(settings, m.key, m.value)

\* the body of settings.forEach for one setting
MergeSetting(settings, schema, setting) ==
  LET m == SettingMatch(setting)
  IN IF ~m.ok THEN settings
     ELSE IF m.key \notin {schema.keys[i] : i \in 1..Len(schema.keys)} THEN settings
     ELSE IF Has(settings, m.key) THEN settings
     ELSE Put(settings, m.key, m.value)

RECURSIVE MergeSettings(_, _, _)
MergeSettings(settings, schema, list) ==
  IF list = <<>> THEN settings
  ELSE MergeSettings(MergeSetting(settings, schema, Head(list)), schema, Tail(list))

RECURSIVE MergeDirectives(_, _, _)
MergeDirectives(settings, schema, directives) ==
  IF directives = <<>> THEN settings
  ELSE MergeDirectives(MergeSettings(settings, schema, Head(directives).params.setting),
                       schema, Tail(directives))

\* variant: only the required keys are checked
SchemaErrorsRequiredOnly(resource, settings, schema) ==
  LET RECURSIVE From(_)
      From(i) ==
        IF i > Len(schema.keys) THEN <<>>
        ELSE LET k == schema.keys[i]
             IN (IF k \in schema.required /\ ~Has(settings, k)
                 THEN <<ResourceError("MissingRequired", resource.name, k)>>
                 ELSE <<>>) \o From(i + 1)
  IN From(1)

\* the errors array of Resource.validate, in schema key order
SchemaErrors(resource, settings, schema) ==
  LET RECURSIVE From(_)
      From(i) ==
        IF i > Len(schema.keys) THEN <<>>
        ELSE LET k == schema.keys[i]
             IN (IF k \in schema.required /\ ~Has(settings, k)
                 THEN <<ResourceError("MissingRequired", resource.name, k)>>
                 ELSE IF Has(settings, k) /\ Has(schema.enum, k) /\ settings[k] \notin schema.enum[k]
                 THEN <<ResourceError("InvalidValue", resource.name, k)>>
                 ELSE <<>>) \o From(i + 1)
  IN From(1)

\* variant: a type outside resourceTypes has no schema to fail
ResourceValidateAnyType(resource) ==
  IF resource.type \notin DOMAIN resourceTypes
  THEN [resource |-> resource, err |-> NoError]
  ELSE LET schema   == resourceTypes[resource.type]
           settings == MergeDirectives(resource.settings, schema, resource.directives)
           errors   == SchemaErrors(resource, settings, schema)
       IN [resource |-> [resource EXCEPT !.settings = settings],
           err |-> IF errors # <<>> THEN errors[1] ELSE NoError]

\* Resource.validate(done): the resource afterwards and the error handed to done
ResourceValidate(resource) ==
  IF resource.type \notin DOMAIN resourceTypes
  THEN [resource |-> resource,
        err |-> ResourceError("UnknownType", resource.name, resource.type)]
  ELSE LET schema   == resourceTypes[resource.type]
           settings == MergeDirectives(resource.settings, schema, resource.directives)
           errors   == SchemaErrors(resource, settings, schema)
       IN [resource |-> [resource EXCEPT !.settings = settings],
           err |-> IF errors # <<>> THEN errors[1] ELSE NoError]

\* ------------------------------------------------------------------ Route

\* Route.register(app, component, directive, done): the route is appended to
\* app.routes and handed to done
NewRoute(component, directive) ==
  [pattern |-> directive.params.pattern, method |-> directive.params.method,
   component |-> component.name, directive |-> directive]

\* -------------------------------------------------------------- Component

\* variant: STATIC is allowed for static components
typesWithStatic ==
  [service |-> {"ROUTE", "RESOURCE", "ENV", "SPECIAL", "EXPOSE", "FROM", "COPY", "ADD",
                "RUN", "WORKDIR", "ENTRYPOINT", "CMD", "USER", "CPU", "MEMORY"},
   task    |-> {"LIFECYCLE", "CRON", "RESOURCE", "ENV", "FROM", "COPY", "ADD", "RUN",
                "WORKDIR", "ENTRYPOINT", "CMD", "USER", "CPU", "MEMORY"},
   static  |-> {"ROUTE", "FROM", "COPY", "ADD", "RUN", "WORKDIR", "ENTRYPOINT", "USER",
                "ASSETS", "STATIC"}]

types ==
  [service |-> {"ROUTE", "RESOURCE", "ENV", "SPECIAL", "EXPOSE", "FROM", "COPY", "ADD",
                "RUN", "WORKDIR", "ENTRYPOINT", "CMD", "USER", "CPU", "MEMORY"},
   task    |-> {"LIFECYCLE", "CRON", "RESOURCE", "ENV", "FROM", "COPY", "ADD", "RUN",
                "WORKDIR", "ENTRYPOINT", "CMD", "USER", "CPU", "MEMORY"},
   static  |-> {"ROUTE", "FROM", "COPY", "ADD", "RUN", "WORKDIR", "ENTRYPOINT", "USER",
                "ASSETS"}]

DefaultPort == 80
DefaultCpu == 100
DefaultMemory == 128

\* variant: a task is given the port of a service
DefaultSettingsWithPort(type) ==
  IF type \in {"service", "task"}
  THEN ("port" :> DefaultPort) @@ ("cpu" :> DefaultCpu) @@ ("memory" :> DefaultMemory)
  ELSE EmptyMap

\* the settings the constructor gives a component of the type
DefaultSettings(type) ==
  IF type = "service"
  THEN ("port" :> DefaultPort) @@ ("cpu" :> DefaultCpu) @@ ("memory" :> DefaultMemory)
  ELSE IF type = "task" THEN ("cpu" :> DefaultCpu) @@ ("memory" :> DefaultMemory)
  ELSE EmptyMap

\* new Component(app, directives, rootPath)
NewComponent(directives, rootPath) ==
  [name       |-> directives[1].params.name,
   type       |-> directives[1].params.type,
   directives |-> directives,
   rootPath   |-> rootPath,
   variables  |-> EmptyMap,
   routes     |-> <<>>,
   resources  |-> <<>>,
   settings   |-> DefaultSettings(directives[1].params.type)]

ComponentError(component, directive) ==
  [name |-> "ComponentError", cmd |-> directive.cmd, type |-> component.type,
   file |-> directive.file, lineNumber |-> directive.lineNumber]

RECURSIVE CollectVariables(_, _)
CollectVariables(variables, directives) ==
  IF directives = <<>> THEN variables
  ELSE LET d == Head(directives)
       IN CollectVariables(
            IF d.cmd = "ENV"
            THEN Put(variables, d.params.key,
                     [default |-> d.params.defaultValue, secret |-> d.params.secret])
            ELSE variables,
            Tail(directives))

\* variant: no directive changes a setting
ApplySettingNone(settings, d) == settings

\* the setting side effect of one directive
ApplySetting(settings, d) ==
  CASE d.cmd = "EXPOSE"    -> Put(settings, "port", d.params.port)
    [] d.cmd = "LIFECYCLE" ->
         Put(settings, "lifecycles",
             Append(IF Has(settings, "lifecycles") THEN settings["lifecycles"] ELSE <<>>,
                    d.params.lifecycle))
    [] d.cmd = "CRON"      -> Put(settings, "cron", d.params)
    [] d.cmd = "CPU"       -> Put(settings, "cpu", ParseFloat(d.params.units))
    [] d.cmd = "MEMORY"    -> Put(settings, "memory", ParseInt(d.params.units))
    [] d.cmd = "STATIC"    -> Put(settings, "contentDirectory", d.params.contentDirectory)
    [] OTHER               -> settings

RECURSIVE ApplySettings(_, _)
ApplySettings(settings, directives) ==
  IF directives = <<>> THEN settings
  ELSE ApplySettings(ApplySetting(settings, Head(directives)), Tail(directives))

\* the directive is refused for the component's type
Illegal(type, d) == d.cmd \notin types[type] /\ d.cmd # "COMPONENT"

\* the errors array of Component.validate, in directive order
LegalityErrors(component) ==
  LET RECURSIVE From(_)
      From(i) ==
        IF i > Len(component.directives) THEN <<>>
        ELSE (IF Illegal(component.type, component.directives[i])
              THEN <<ComponentError(component, component.directives[i])>>
              ELSE <<>>) \o From(i + 1)
  IN From(1)

\* variant: the last error is the one reported
LastError(errors) == errors[Len(errors)]

\* errors[0]
FirstError(errors) == errors[1]

OfCmd(directives, cmd) == SelectSeq(directives, LAMBDA d : d.cmd = cmd)

\* async.map(routeDirectives, Route.register): every route is appended to
\* app.routes
RECURSIVE RegisterRoutes(_, _, _)
RegisterRoutes(component, routes, directives) ==
  IF directives = <<>> THEN routes
  ELSE RegisterRoutes(component, Append(routes, NewRoute(component, Head(directives))),
                      Tail(directives))

\* async.map(resourceDirectives, Resource.register): every directive is
\* registered, the first error is the one reported
RECURSIVE RegisterResources(_, _)
RegisterResources(acc, directives) ==
  IF directives = <<>> THEN acc
  ELSE LET r == Register(acc.registry, acc.nextId, Head(directives))
       IN RegisterResources(
            [registry |-> r.registry, nextId |-> r.nextId,
             err |-> IF acc.err = NoError THEN r.err ELSE acc.err,
             ids |-> Append(acc.ids, r.id)],
            Tail(directives))

\* variant: the legality errors are reported before any setting is applied
ValidateLegalityFirst(component, registry, routes, nextId) ==
  LET variables == CollectVariables(component.variables, component.directives)
      c1        == [component EXCEPT !.variables = variables]
  IN IF component.type \notin DOMAIN types
     THEN [outcome |-> "throw", err |-> [name |-> "TypeError"], component |-> c1,
           registry |-> registry, routes |-> routes, nextId |-> nextId]
     ELSE
       LET c2     == [c1 EXCEPT !.settings = ApplySettings(@, component.directives)]
           errors == LegalityErrors(c2)
       IN IF errors # <<>>
          THEN [outcome |-> "error", err |-> FirstError(errors), component |-> c1,
                registry |-> registry, routes |-> routes, nextId |-> nextId]
          ELSE
            LET routes2 == RegisterRoutes(c2, routes, OfCmd(component.directives, "ROUTE"))
                mine    == SubSeq(routes2, Len(routes) + 1, Len(routes2))
                reg     == RegisterResources(
                             [registry |-> registry, nextId |-> nextId,
                              err |-> NoError, ids |-> <<>>],
                             OfCmd(component.directives, "RESOURCE"))
            IN IF reg.err # NoError
               THEN [outcome |-> "error", err |-> reg.err, component |-> c2,
                     registry |-> reg.registry, routes |-> routes2, nextId |-> reg.nextId]
               ELSE [outcome |-> "ok", err |-> NoError,
                     component |-> [c2 EXCEPT !.routes = mine, !.resources = reg.ids],
                     registry |-> reg.registry, routes |-> routes2, nextId |-> reg.nextId]

\* variant: the routes and resources are registered before the legality
\* errors are looked at
ValidateRegisterFirst(component, registry, routes, nextId) ==
  LET variables == CollectVariables(component.variables, component.directives)
      c1        == [component EXCEPT !.variables = variables]
  IN IF component.type \notin DOMAIN types
     THEN [outcome |-> "throw", err |-> [name |-> "TypeError"], component |-> c1,
           registry |-> registry, routes |-> routes, nextId |-> nextId]
     ELSE
       LET c2      == [c1 EXCEPT !.settings = ApplySettings(@, component.directives)]
           errors  == LegalityErrors(c2)
           routes2 == RegisterRoutes(c2, routes, OfCmd(component.directives, "ROUTE"))
           mine    == SubSeq(routes2, Len(routes) + 1, Len(routes2))
           reg     == RegisterResources(
                        [registry |-> registry, nextId |-> nextId,
                         err |-> NoError, ids |-> <<>>],
                        OfCmd(component.directives, "RESOURCE"))
       IN IF errors # <<>>
          THEN [outcome |-> "error", err |-> FirstError(errors), component |-> c2,
                registry |-> reg.registry, routes |-> routes2, nextId |-> reg.nextId]
          ELSE IF reg.err # NoError
          THEN [outcome |-> "error", err |-> reg.err, component |-> c2,
                registry |-> reg.registry, routes |-> routes2, nextId |-> reg.nextId]
          ELSE [outcome |-> "ok", err |-> NoError,
                component |-> [c2 EXCEPT !.routes = mine, !.resources = reg.ids],
                registry |-> reg.registry, routes |-> routes2, nextId |-> reg.nextId]

\* Component.validate(done) on an application holding `registry`
\* (app.resources) and `routes` (app.routes).  outcome "throw": an exception
\* left validate and done was not called.
Validate(component, registry, routes, nextId) ==
  LET variables == CollectVariables(component.variables, component.directives)
      c1        == [component EXCEPT !.variables = variables]
  IN IF component.type \notin DOMAIN types
     THEN [outcome |-> "throw", err |-> [name |-> "TypeError"], component |-> c1,
           registry |-> registry, routes |-> routes, nextId |-> nextId]
     ELSE
       LET c2     == [c1 EXCEPT !.settings = ApplySettings(@, component.directives)]
           errors == LegalityErrors(c2)
       IN IF errors # <<>>
          THEN [outcome |-> "error", err |-> FirstError(errors), component |-> c2,
                registry |-> registry, routes |-> routes, nextId |-> nextId]
          ELSE
            LET routeDs  == OfCmd(component.directives, "ROUTE")
                routes2  == RegisterRoutes(c2, routes, routeDs)
                mine     == SubSeq(routes2, Len(routes) + 1, Len(routes2))
                reg      == RegisterResources(
                              [registry |-> registry, nextId |-> nextId,
                               err |-> NoError, ids |-> <<>>],
                              OfCmd(component.directives, "RESOURCE"))
            IN IF reg.err # NoError
               THEN [outcome |-> "error", err |-> reg.err, component |-> c2,
                     registry |-> reg.registry, routes |-> routes2, nextId |-> reg.nextId]
               ELSE [outcome |-> "ok", err |-> NoError,
                     component |-> [c2 EXCEPT !.routes = mine, !.resources = reg.ids],
                     registry |-> reg.registry, routes |-> routes2, nextId |-> reg.nextId]

\* ------------------------------------------------------------- filesystem

rootPath == <<"/", "app">>

Noopfile == <<"Noopfile">>
GitIgnore == <<".gitignore">>
DockerIgnore == <<".dockerignore">>

InRoot(name) == rootPath \o <<"/">> \o name
InDir(dir, name) == rootPath \o <<"/", dir, "/">> \o name

\* a manifest line from its words, each given as a one-token word or a token sequence
L1(a) == <<<<a>>>>
L2(a, b) == <<<<a>>, b>>
L3(a, b, c) == <<<<a>>, b, c>>
L4(a, b, c, d) == <<<<a>>, b, c, d>>

KV(k, v) == <<k, "=", v>>
Setting(k, v) == <<"setting", "=", k, "=", v>>

ApiManifest == InDir("api", Noopfile)
WebManifest == InDir("web", Noopfile)
RootIgnore == InRoot(GitIgnore)
ApiIgnore == InDir("api", DockerIgnore)

\* The trees on disk the model is run on: each maps the manifest and ignore
\* files found under rootPath to their lines.
TreeAttribution ==
  (RootIgnore :> << <<"*", ".log">> >>) @@
  (ApiManifest :> << L3("COMPONENT", <<"A">>, <<"service">>),
                     <<<<"#", "api">>>>,
                     L3("ADD", <<".">>, <<".">>),
                     L3("RESOURCE", KV("name", "db"), KV("type", "postgresql")) >>) @@
  (WebManifest :> << L3("COMPONENT", <<"B">>, <<"service">>),
                     L3("ADD", <<".", "/", "src">>, <<".", "/", "src">>),
                     L3("COPY", <<"lib">>, <<"lib">>),
                     L3("RESOURCE", KV("name", "db"), KV("type", "postgresql")) >>)

TreeIllegal ==
  (ApiManifest :> << L3("COMPONENT", <<"A">>, <<"static">>),
                     L2("CMD", <<"run">>),
                     L2("EXPOSE", <<"8080">>) >>) @@
  (WebManifest :> << L3("COMPONENT", <<"B">>, <<"task">>),
                     L3("ADD", <<".">>, <<".">>),
                     L3("RESOURCE", KV("name", "q"), KV("type", "s3")) >>)

TreeConflict ==
  (ApiManifest :> << L3("COMPONENT", <<"A">>, <<"service">>),
                     L3("RESOURCE", KV("name", "db"), KV("type", "mysql")) >>) @@
  (WebManifest :> << L3("COMPONENT", <<"B">>, <<"task">>),
                     L3("RESOURCE", KV("name", "db"), KV("type", "postgresql")) >>)

TreeDynamo ==
  (ApiIgnore :> << <<"tmp">> >>) @@
  (ApiManifest :> << L3("COMPONENT", <<"A">>, <<"service">>),
                     L3("ADD", <<".">>, <<".">>),
                     L4("RESOURCE", KV("name", "t"), KV("type", "dynamodb"),
                        Setting("hashKeyName", "id")) >>) @@
  (WebManifest :> << L3("COMPONENT", <<"B">>, <<"task">>),
                     L3("RESOURCE", KV("name", "t"), Setting("hashKeyType", "S")) >>)

TreeBadSchema ==
  (ApiManifest :> << L3("COMPONENT", <<"A">>, <<"service">>),
                     L2("ROUTE", <<"/">>),
                     L4("RESOURCE", KV("name", "t"), KV("type", "dynamodb"),
                        Setting("hashKeyType", "X")) >>) @@
  (WebManifest :> << L3("COMPONENT", <<"B">>, <<"task">>),
                     L3("RESOURCE", KV("name", "q"), KV("type", "s3")) >>)

TreeUnknownType ==
  (ApiManifest :> << L3("COMPONENT", <<"A">>, <<"worker">>),
                     L3("ADD", <<".">>, <<".">>) >>)

TreeRoot ==
  (RootIgnore :> << <<"*", ".log">>, <<>>, <<"#", "but">>, <<"!", "keep", ".log">> >>) @@
  (InRoot(Noopfile) :> << L3("COMPONENT", <<"R">>, <<"service">>),
                          L3("ADD", <<".">>, <<".">>) >>)

TreeEndToEnd ==
  (ApiManifest :> << L3("COMPONENT", <<"api">>, <<"service">>),
                     L2("ENV", KV("PORT", "3000")),
                     L2("EXPOSE", <<"8080">>),
                     L3("RESOURCE", KV("name", "db"), KV("type", "postgresql")) >>)

\* a manifest in the root and one below it declare a component of one name
TreeNested ==
  (InRoot(Noopfile) :> << L3("COMPONENT", <<"X">>, <<"service">>),
                          L3("ADD", <<".">>, <<".">>) >>) @@
  (ApiManifest :> << L3("COMPONENT", <<"X">>, <<"service">>),
                     L3("ADD", <<".">>, <<".">>) >>)

\* a resource no directive gives a type
TreeNoType ==
  (ApiManifest :> << L3("COMPONENT", <<"A">>, <<"service">>),
                     L2("RESOURCE", KV("name", "db")) >>)

\* a blanket scope at the root and an ignore file in /app/api
TreeSibling ==
  (ApiIgnore :> << <<"x.txt">> >>) @@
  (InRoot(Noopfile) :> << L3("COMPONENT", <<"R">>, <<"service">>),
                          L3("ADD", <<".">>, <<".">>) >>)

Trees == <<TreeAttribution, TreeIllegal, TreeConflict, TreeDynamo, TreeBadSchema,
           TreeUnknownType, TreeRoot, TreeEndToEnd, TreeNested, TreeNoType, TreeSibling>>

\* the paths a filesystem change is reported for
EventPaths ==
  {InDir("api", <<"foo.txt">>), InDir("api", <<"debug", ".log">>),
   InDir("web", <<"src", "/", "index.js">>), InDir("web", <<"lib", "/", "util.js">>),
   InDir("web", <<"README.md">>), InDir("api", Noopfile), InDir("api", GitIgnore),
   InRoot(DockerIgnore), rootPath \o <<"/", "api", "-", "v2", "/", "x.txt">>,
   InRoot(<<"debug", ".log">>), InRoot(<<"keep", ".log">>)}

\* ------------------------------------------------------------ Application

\* the members of a set in one fixed order (a JavaScript object is walked in
\* the order its keys were inserted; the model walks them in this order)
RECURSIVE SetToSeq(_)
SetToSeq(S) ==
  IF S = {} THEN <<>>
  ELSE LET x == CHOOSE y \in S : TRUE IN <<x>> \o SetToSeq(S \ {x})

RECURSIVE Flatten(_)
Flatten(ss) == IF ss = <<>> THEN <<>> ELSE Head(ss) \o Flatten(Tail(ss))

\* Array.from(new Set(list)): first occurrences, in order
RECURSIVE Unique(_)
Unique(list) ==
  IF list = <<>> THEN <<>>
  ELSE LET init == Unique(SubSeq(list, 1, Len(list) - 1))
           x    == list[Len(list)]
       IN IF \E i \in 1..Len(init) : init[i] = x THEN init ELSE Append(init, x)

\* new Application(rootPath, watch)
NewApplication(flag) ==
  [watch      |-> flag,
   watcher    |-> 0,
   components |-> EmptyMap,
   resources  |-> EmptyMap,
   routes     |-> <<>>,
   manifests  |-> <<>>,
   ignoring   |-> EmptyMap,
   watching   |-> EmptyMap,
   objects    |-> 0]

\* the lines of an ignore file that are patterns
IgnorePatterns(lines) ==
  Unique(SelectSeq(lines, LAMBDA l : l # <<>> /\ Head(l) # "#"))

\* parseIgnore(file, done) once the file is read
ParseIgnore(a, file, lines) ==
  IF IgnorePatterns(lines) # <<>>
  THEN [a EXCEPT !.ignoring = Put(@, file, IgnoreAdd(IgnorePatterns(lines)))]
  ELSE a

\* parseManifest's scan of a manifest: the watch scope of each component
\* named by a three-word COMPONENT line, from the source word of the
\* three-word ADD / COPY lines that follow it
ScanScopes(lines) ==
  LET Scope(s) == IgnoreAdd(IF s.copyAll THEN <<<<"*">>>> ELSE Unique(s.files))
      HandleFiles(s) ==
        IF s.name # "" THEN [s EXCEPT !.components = Put(@, s.name, Scope(s))] ELSE s
      Line(s, l) ==
        LET s1 == IF Len(l) = 3 /\ l[1] = <<"COMPONENT">>
                  THEN [HandleFiles(s) EXCEPT !.name = WordStr(l[2]), !.files = <<>>,
                                               !.copyAll = FALSE]
                  ELSE s
        IN IF Len(l) = 3 /\ l[1] \in {<<"ADD">>, <<"COPY">>} /\ ~s1.copyAll
           THEN IF l[2] = <<".">> THEN [s1 EXCEPT !.copyAll = TRUE]
                ELSE [s1 EXCEPT !.files = Append(@, l[2])]
           ELSE s1
      RECURSIVE Walk(_, _)
      Walk(s, ls) ==
        IF ls = <<>> THEN s
        ELSE Walk(IF IsDirectiveLine(Head(ls)) THEN Line(s, Head(ls)) ELSE s, Tail(ls))
  IN HandleFiles(Walk([name |-> "", files |-> <<>>, copyAll |-> FALSE,
                       components |-> EmptyMap], lines)).components

\* parseManifest(file, done) once the file is read
ParseManifest(a, file, lines) ==
  IF DOMAIN ScanScopes(lines) # {}
  THEN [a EXCEPT !.watching = Put(@, file, ScanScopes(lines))]
  ELSE a

\* Manifest.discover once the file is read: every component block becomes a
\* Component registered under its name; a later one replaces an earlier one
ManifestDiscover(a, file, lines) ==
  LET blocks == ComponentBlocks(ParseDirectives(lines, file))
      RECURSIVE Add(_, _)
      Add(comps, bs) ==
        IF bs = <<>> THEN comps
        ELSE LET c == NewComponent(Head(bs), Dir(file))
             IN Add(Put(comps, c.name, c), Tail(bs))
  IN [a EXCEPT !.components = Add(@, blocks)]

\* checkIgnoreStatus(file): TRUE when the watcher is to leave the path out
CheckIgnoreStatusWatchFirst(a, file) ==
  IF Includes(file, <<"/", ".git", "/">>) THEN TRUE
  ELSE IF file = rootPath \/ Base(file) = Noopfile THEN FALSE
  ELSE IF \E key \in DOMAIN a.watching :
            /\ StartsWith(file, Dir(key))
            /\ \E c \in DOMAIN a.watching[key] :
                 Ignores(a.watching[key][c], Slice(file, Len(Dir(key)) + 1))
       THEN FALSE
  ELSE TRUE

CheckIgnoreStatus(a, file) ==
  IF Includes(file, <<"/", ".git", "/">>) THEN TRUE
  ELSE IF file = rootPath \/ Base(file) = Noopfile THEN FALSE
  ELSE IF \E key \in DOMAIN a.ignoring :
            /\ StartsWith(file, Dir(key))
            /\ Ignores(a.ignoring[key], Slice(file, Len(Dir(key)) + 1))
       THEN TRUE
  ELSE IF \E key \in DOMAIN a.watching :
            /\ StartsWith(file, Dir(key))
            /\ \E c \in DOMAIN a.watching[key] :
                 Ignores(a.watching[key][c], Slice(file, Len(Dir(key)) + 1))
       THEN FALSE
  ELSE TRUE

ManifestChange(file) == [event |-> "manifestChange", component |-> "", file |-> file]
ComponentChange(name, file) ==
  [event |-> "componentChange", component |-> name, file |-> file]

\* modifiedComponents of the 'all' handler: the names under which the
\* components are looked up in this.components, one per matching scope
ModifiedComponents(a, file) ==
  LET OfManifest(manifestPath) ==
        IF StartsWith(file, Dir(manifestPath)) /\ file # Dir(manifestPath)
        THEN SelectSeq(SetToSeq(DOMAIN a.watching[manifestPath]),
                       LAMBDA c : Ignores(a.watching[manifestPath][c],
                                          Slice(file, Len(Dir(manifestPath)) + 1)))
        ELSE <<>>
      keys == SetToSeq(DOMAIN a.watching)
  IN Flatten([i \in 1..Len(keys) |-> OfManifest(keys[i])])

\* the watcher's 'all' handler for one event: what it emits, and whether it
\* raised (a matching scope names a component this.components does not hold)
HandleEvent(a, file) ==
  IF Base(file) = Noopfile
  THEN [emits |-> <<ManifestChange(file)>>, raised |-> FALSE]
  ELSE LET names == ModifiedComponents(a, file)
           bad   == {i \in 1..Len(names) : ~Has(a.components, names[i])}
           upto  == IF bad = {} THEN Len(names)
                    ELSE (CHOOSE i \in bad : \A j \in bad : i <= j) - 1
       IN [emits  |-> [i \in 1..upto |-> ComponentChange(a.components[names[i]].name, file)],
           raised |-> bad # {}]

\* --------------------------------------------------------------- the state

VARIABLES
  tree,     \* which of Trees is on disk
  fsfail,   \* the filesystem fault: <<>> none, NoEnum (the directory walk
            \* fails), or the path of a file that cannot be read
  app,      \* the Application object
  run,      \* the discover() / reload() call in progress, or the last one
  open,     \* the watcher subscriptions that are not closed
  last,     \* the last filesystem change and what its handling emitted
  thrown    \* an exception left the program uncaught

vars == <<tree, fsfail, app, run, open, last, thrown>>

MaxCalls == 3

NoEnum == <<"*">>

Files == DOMAIN Trees[tree]

Stages == <<"findFiles", "parseFiles", "parseManifests", "validateComponents",
            "validateResources", "watchers">>

StageNo(stage) == CHOOSE i \in 1..Len(Stages) : Stages[i] = stage

\* a call that has not begun its first stage
NewRun(kind, n, graph) ==
  [kind     |-> kind,      \* "discover" or "reload"
   prior    |-> graph,     \* the graph the application held when the call was made
   calls    |-> n,         \* calls made so far, this one included
   stage    |-> "idle",
   inflight |-> {},        \* items of the stage that have not called back
   kept     |-> {},        \* the files async.filter keeps
   failed   |-> FALSE,     \* async.auto has reported an error
   failedAt |-> "",
   cb       |-> <<>>,      \* what the call's callback was invoked with
   items    |-> EmptyMap,  \* stage -> the items it began with
   finished |-> {},        \* <<stage, item>> that completed without error
   closed   |-> 0,         \* the subscription reload closed (0: none)
   args     |-> <<>>]      \* the arguments of the exported function, when the
                           \* call came through it

St == [app |-> app, run |-> run, open |-> open]

Commit(st) == app' = st.app /\ run' = st.run /\ open' = st.open

\* async.auto's final callback: called once, with the first error
Fail(st, err) ==
  IF st.run.failed THEN st
  ELSE [st EXCEPT !.run.failed = TRUE, !.run.failedAt = st.run.stage,
                  !.run.cb = Append(@, err)]

\* the call is over once it has reported and nothing of it is in flight
Settle(st) ==
  IF st.run.failed /\ st.run.inflight = {} THEN [st EXCEPT !.run.stage = "idle"] ELSE st

Begin(st, stage, items) ==
  [st EXCEPT !.run.stage = stage, !.run.inflight = items,
             !.run.items = Put(@, stage, items)]

Finish(st, item) ==
  [st EXCEPT !.run.inflight = @ \ {item},
             !.run.finished = @ \cup {<<st.run.stage, item>>}]

\* setupWatch(done): a new subscription replaces this.watcher
SetupWatch(st) ==
  [st EXCEPT !.app.watcher = st.run.calls, !.open = @ \cup {st.run.calls}]

\* the watchers task, then the callback of discover
EnterWatchers(st) ==
  LET s1 == Begin(st, "watchers", {})
      s2 == IF s1.app.watch THEN SetupWatch(s1) ELSE s1
  IN [s2 EXCEPT !.run.stage = "idle", !.run.cb = Append(@, NoError)]

EnterValidateResources(st) ==
  LET s1 == Begin(st, "validateResources", DOMAIN st.app.resources)
  IN IF s1.run.inflight = {} THEN EnterWatchers(s1) ELSE s1

EnterValidateComponents(st) ==
  LET s1 == Begin(st, "validateComponents", DOMAIN st.app.components)
  IN IF s1.run.inflight = {} THEN EnterValidateResources(s1) ELSE s1

\* the parseManifests task: a Manifest is pushed for every file kept, and
\* each starts reading its file
EnterParseManifests(st, files) ==
  LET s1 == Begin([st EXCEPT !.app.manifests = @ \o SetToSeq(files)],
                  "parseManifests", files)
  IN IF files = {} THEN EnterValidateComponents(s1) ELSE s1

\* the parseFiles task: when watching every file is read (parseManifest /
\* parseIgnore), otherwise the filter keeps the manifests at once
\* variant: every file is read whatever the watch flag
EnterParseFilesAlways(st, files) ==
  LET s1 == Begin(st, "parseFiles", files)
  IN IF files = {} THEN EnterParseManifests(s1, {}) ELSE s1

EnterParseFiles(st, files) ==
  LET s1 == Begin(st, "parseFiles", files)
      manifestFiles == {f \in files : Base(f) = Noopfile}
  IN IF st.app.watch
     THEN IF files = {} THEN EnterParseManifests(s1, {}) ELSE s1
     ELSE EnterParseManifests(
            [s1 EXCEPT !.run.inflight = {},
                       !.run.finished = @ \cup {<<"parseFiles", f>> : f \in files}],
            manifestFiles)

FsError == [name |-> "Error"]

NoChange == [file |-> <<>>, reported |-> 0, emits |-> <<>>]

\* the graph an Application exposes
Graph(a) == [components |-> a.components, resources |-> a.resources,
             routes |-> a.routes, manifests |-> a.manifests]

\* the barrier of async.filter / async.each: the task is complete when every
\* item has called back
StageCompleteEarly(st) == TRUE

StageComplete(st) == st.run.inflight = {}

\* ------------------------------------------------------------- the actions

Init ==
  /\ tree \in 1..Len(Trees)
  /\ fsfail \in {<<>>, NoEnum} \cup DOMAIN Trees[tree]
  /\ app \in {NewApplication(flag) : flag \in BOOLEAN}
  /\ run = NewRun("none", 0, Graph(app))
  /\ open = {}
  /\ last = NoChange
  /\ thrown = FALSE

Running == ~thrown /\ run.stage # "crashed"

\* every step other than a change: `last` describes a change only in the
\* state its handling leaves
Quiet == last' = NoChange /\ UNCHANGED <<tree, fsfail>>

\* discover(done)
Discover ==
  /\ Running /\ run.stage = "idle" /\ run.calls < MaxCalls
  /\ Commit(Begin([St EXCEPT !.run = NewRun("discover", run.calls + 1, Graph(app))],
                  "findFiles", {rootPath}))
  /\ thrown' = thrown
  /\ Quiet

\* the callback of recursive(): the findFiles task ends and parseFiles begins
FindFiles ==
  /\ Running /\ run.stage = "findFiles"
  /\ Commit(IF fsfail = NoEnum THEN Settle(Fail(St, FsError))
            ELSE EnterParseFiles(Finish(St, rootPath), Files))
  /\ thrown' = thrown
  /\ Quiet

\* the fs.readFile callback of parseManifest / parseIgnore for one file
ReadFile(f) ==
  /\ Running /\ run.stage = "parseFiles" /\ f \in run.inflight
  /\ LET lines == Trees[tree][f]
         parsed == IF Base(f) = Noopfile THEN ParseManifest(app, f, lines)
                   ELSE ParseIgnore(app, f, lines)
         s0 == IF f = fsfail
               THEN Fail([St EXCEPT !.run.inflight = @ \ {f}], FsError)
               ELSE Finish([St EXCEPT !.app = parsed,
                                      !.run.kept = IF Base(f) = Noopfile
                                                   THEN @ \cup {f} ELSE @], f)
     IN Commit(IF s0.run.failed THEN Settle(s0)
               ELSE IF StageComplete(s0) THEN EnterParseManifests(s0, s0.run.kept)
               ELSE s0)
  /\ thrown' = thrown
  /\ Quiet

\* the callback of manifest.discover for one manifest
ManifestRead(f) ==
  /\ Running /\ run.stage = "parseManifests" /\ f \in run.inflight
  /\ LET s0 == IF f = fsfail
               THEN Fail([St EXCEPT !.run.inflight = @ \ {f}], FsError)
               ELSE Finish([St EXCEPT !.app = ManifestDiscover(app, f, Trees[tree][f])], f)
     IN Commit(IF s0.run.failed THEN Settle(s0)
               ELSE IF StageComplete(s0) THEN EnterValidateComponents(s0)
               ELSE s0)
  /\ thrown' = thrown
  /\ Quiet

\* component.validate(done) for one component of async.each(this.components)
ValidateComponent(c) ==
  /\ Running /\ run.stage = "validateComponents" /\ ~run.failed /\ c \in run.inflight
  /\ LET v  == Validate(app.components[c], app.resources, app.routes, app.objects)
         a2 == [app EXCEPT !.components[c] = v.component, !.resources = v.registry,
                           !.routes = v.routes, !.objects = v.nextId]
         s0 == [St EXCEPT !.app = a2]
     IN CASE v.outcome = "throw" ->
               /\ thrown' = TRUE
               /\ Commit([s0 EXCEPT !.run.stage = "crashed"])
          [] v.outcome = "error" ->
               /\ thrown' = thrown
               /\ Commit(Settle(Fail([s0 EXCEPT !.run.inflight = {}], v.err)))
          [] OTHER ->
               /\ thrown' = thrown
               /\ Commit(LET s1 == Finish(s0, c)
                         IN IF StageComplete(s1) THEN EnterValidateResources(s1) ELSE s1)
  /\ Quiet

\* resource.validate(done) for one resource of async.each(this.resources)
ValidateResource(r) ==
  /\ Running /\ run.stage = "validateResources" /\ ~run.failed /\ r \in run.inflight
  /\ LET v  == ResourceValidate(app.resources[r])
         s0 == [St EXCEPT !.app.resources[r] = v.resource]
     IN Commit(IF v.err # NoError
               THEN Settle(Fail([s0 EXCEPT !.run.inflight = {}], v.err))
               ELSE LET s1 == Finish(s0, r)
                    IN IF StageComplete(s1) THEN EnterWatchers(s1) ELSE s1)
  /\ thrown' = thrown
  /\ Quiet

\* variant: close() leaves the subscription delivering events
CloseWatcherNever(subs, watcher) == subs

\* watcher.close(): the subscription delivers no event from the call on
CloseWatcher(subs, watcher) == subs \ {watcher}

\* reload(done): this.watcher.close() is called; with no watcher the call
\* raises a TypeError
Reload ==
  /\ Running /\ run.stage = "idle" /\ run.cb # <<>> /\ run.calls < MaxCalls
  /\ IF app.watcher = 0
     THEN /\ thrown' = TRUE
          /\ run' = [NewRun("reload", run.calls + 1, Graph(app)) EXCEPT !.stage = "crashed"]
          /\ UNCHANGED <<app, open>>
     ELSE /\ thrown' = thrown
          /\ run' = [NewRun("reload", run.calls + 1, Graph(app))
                       EXCEPT !.stage = "closing", !.closed = app.watcher]
          /\ open' = CloseWatcher(open, app.watcher)
          /\ UNCHANGED app
  /\ Quiet

\* the watcher has closed: the graph and the tables are dropped and
\* discover(done) runs
Closed ==
  /\ Running /\ run.stage = "closing"
  /\ app' = [NewApplication(app.watch) EXCEPT !.objects = app.objects]
  /\ run' = Begin(St, "findFiles", {rootPath}).run
  /\ UNCHANGED <<open, thrown>>
  /\ Quiet

\* a filesystem change at `file`: every open subscription asks
\* checkIgnoreStatus and, unless the path is ignored, runs the 'all' handler
Change(file) ==
  /\ Running /\ open # {}
  /\ LET ignored == CheckIgnoreStatus(app, file)
         h       == HandleEvent(app, file)
         n       == IF ignored THEN 0 ELSE Cardinality(open)
     IN /\ last' = [file |-> file, reported |-> n,
                    emits |-> Flatten([i \in 1..n |-> h.emits])]
        /\ thrown' = (thrown \/ (n > 0 /\ h.raised))
  /\ UNCHANGED <<tree, fsfail, app, run, open>>

Next ==
  \/ Discover
  \/ FindFiles
  \/ \E f \in Files : ReadFile(f)
  \/ \E f \in Files : ManifestRead(f)
  \/ \E c \in DOMAIN app.components : ValidateComponent(c)
  \/ \E r \in DOMAIN app.resources : ValidateResource(r)
  \/ Reload
  \/ Closed
  \/ \E file \in EventPaths : Change(file)

Spec == Init /\ [][Next]_vars

\* ------------------------------------------------- lib/application.js
\* The Application of lib/application.js runs the same pipeline with its own
\* findFiles (recursiveSearch), a parseIgnore stage in place of parseFiles
\* (kept under the stage name "parseFiles"), parseComponents called from
\* validateComponents, and its own reload.

\* parseComponents(component, done): the component's watch scope, keyed by
\* the component's directory and its name; done is never called
ParseComponents(a, component) ==
  LET RECURSIVE Walk(_, _)
      Walk(s, ds) ==
        IF ds = <<>> THEN s
        ELSE LET d == Head(ds)
             IN Walk(IF d.cmd \in {"ADD", "COPY"} /\ Len(d.args) = 2 /\ ~s.copyAll
                     THEN IF d.args[1] = <<".">> THEN [s EXCEPT !.copyAll = TRUE]
                          ELSE [s EXCEPT !.files = Append(@, d.args[1])]
                     ELSE s,
                     Tail(ds))
      s  == Walk([files |-> <<>>, copyAll |-> FALSE], component.directives)
      ig == IgnoreAdd(IF s.copyAll THEN <<<<"*">>>> ELSE Unique(s.files))
      at == component.rootPath
  IN IF s.files # <<>>
     THEN [a EXCEPT !.watching =
             Put(@, at, Put(IF Has(@, at) THEN @[at] ELSE EmptyMap, component.name, ig))]
     ELSE a

\* the parseIgnore task: when watching, a manifest is kept at once and every
\* ignore file is read; otherwise the filter keeps the manifests at once
EnterParseIgnore(st, files) ==
  LET s1 == Begin(st, "parseFiles", files)
      manifestFiles == {f \in files : Base(f) = Noopfile}
      s2 == [s1 EXCEPT !.run.inflight = IF st.app.watch THEN files \ manifestFiles ELSE {},
                       !.run.kept = manifestFiles,
                       !.run.finished =
                         @ \cup {<<"parseFiles", f>> :
                                   f \in IF st.app.watch THEN manifestFiles ELSE files}]
  IN IF s2.run.inflight = {} THEN EnterParseManifests(s2, manifestFiles) ELSE s2

\* the findFiles task once recursiveSearch's promise settles.  When the
\* directory walk fails, the promise's catch calls the task callback with the
\* error and its then calls it again: async refuses the second call with an
\* exception that nothing catches.
RecursiveSearch ==
  /\ Running /\ run.stage = "findFiles"
  /\ IF fsfail = NoEnum
     THEN /\ Commit(Settle(Fail(St, FsError)))
          /\ thrown' = TRUE
     ELSE /\ Commit(EnterParseIgnore(Finish(St, rootPath), Files))
          /\ thrown' = thrown
  /\ Quiet

\* the fs.readFile callback of parseIgnore for one ignore file
ReadIgnore(f) ==
  /\ Running /\ run.stage = "parseFiles" /\ f \in run.inflight
  /\ LET s0 == IF f = fsfail
               THEN Fail([St EXCEPT !.run.inflight = @ \ {f}], FsError)
               ELSE Finish([St EXCEPT !.app = ParseIgnore(app, f, Trees[tree][f])], f)
     IN Commit(IF s0.run.failed THEN Settle(s0)
               ELSE IF StageComplete(s0) THEN EnterParseManifests(s0, s0.run.kept)
               ELSE s0)
  /\ thrown' = thrown
  /\ Quiet

\* component.validate(done), then parseComponents when watching, for one
\* component of async.each(this.components)
ValidateAndParseComponent(c) ==
  /\ Running /\ run.stage = "validateComponents" /\ ~run.failed /\ c \in run.inflight
  /\ LET v  == Validate(app.components[c], app.resources, app.routes, app.objects)
         a2 == [app EXCEPT !.components[c] = v.component, !.resources = v.registry,
                           !.routes = v.routes, !.objects = v.nextId]
         a3 == IF app.watch THEN ParseComponents(a2, v.component) ELSE a2
     IN CASE v.outcome = "throw" ->
               /\ thrown' = TRUE
               /\ Commit([St EXCEPT !.app = a2, !.run.stage = "crashed"])
          [] v.outcome = "error" ->
               /\ thrown' = thrown
               /\ Commit(Settle(Fail([St EXCEPT !.app = a3, !.run.inflight = {}], v.err)))
          [] OTHER ->
               /\ thrown' = thrown
               /\ Commit(LET s1 == Finish([St EXCEPT !.app = a3], c)
                         IN IF StageComplete(s1) THEN EnterValidateResources(s1) ELSE s1)
  /\ Quiet

\* reload(done): the graph is dropped at once; with a watcher the rest waits
\* for its close, without one discover(done) runs at once
ReloadGraph ==
  /\ Running /\ run.stage = "idle" /\ run.cb # <<>> /\ run.calls < MaxCalls
  /\ LET a1 == [app EXCEPT !.components = EmptyMap, !.resources = EmptyMap,
                           !.routes = <<>>, !.manifests = <<>>]
         r1 == NewRun("reload", run.calls + 1, Graph(app))
     IN IF app.watcher # 0
        THEN /\ app' = a1
             /\ run' = [r1 EXCEPT !.stage = "closing", !.closed = app.watcher]
             /\ open' = CloseWatcher(open, app.watcher)
        ELSE Commit(Begin([app |-> a1, run |-> r1, open |-> open],
                          "findFiles", {rootPath}))
  /\ thrown' = thrown
  /\ Quiet

\* the watcher has closed: the tables are dropped and discover(done) runs
WatcherClosed ==
  /\ Running /\ run.stage = "closing"
  /\ Commit(Begin([St EXCEPT !.app.watcher = 0, !.app.ignoring = EmptyMap,
                             !.app.watching = EmptyMap],
                  "findFiles", {rootPath}))
  /\ thrown' = thrown
  /\ Quiet

\* ig.ignores(path) refuses a path that is empty or not relative; whether it
\* does depends on the release of the ignore package in use (`strict`)
PathRejected(strict, rel) == strict /\ (rel = <<>> \/ Head(rel) = "/")

\* checkIgnoreStatus(file) of lib/application.js: "ignored", "watched", or
\* "raise" when the pattern matcher refuses the path it is handed.  A watch
\* scope is keyed by the component's directory and the path is sliced at the
\* key's length, so it keeps its leading "/".
CheckIgnoreStatusApplication(a, file, strict) ==
  LET RECURSIVE Watched(_)
      Watched(keys) ==
        IF keys = <<>> THEN "ignored"
        ELSE LET key == Head(keys)
                 rel == Slice(file, Len(key))
             IN IF ~StartsWith(file, key) THEN Watched(Tail(keys))
                ELSE IF PathRejected(strict, rel) THEN "raise"
                ELSE IF \E c \in DOMAIN a.watching[key] : Ignores(a.watching[key][c], rel)
                     THEN "watched"
                ELSE Watched(Tail(keys))
  IN IF Includes(file, <<"/", ".git", "/">>) THEN "ignored"
     ELSE IF file = rootPath \/ Base(file) = Noopfile THEN "watched"
     ELSE IF \E key \in DOMAIN a.ignoring :
               /\ StartsWith(file, Dir(key) \o <<"/">>)
               /\ Ignores(a.ignoring[key], Slice(file, Len(Dir(key)) + 1))
          THEN "ignored"
     ELSE Watched(SetToSeq(DOMAIN a.watching))

\* the 'all' handler of lib/application.js for one event: what it emits, and
\* whether it raised (the matcher refused the path, or a matching scope names
\* a component this.components does not hold)
HandleEventApplication(a, file, strict) ==
  IF Base(file) \in {Noopfile, GitIgnore, DockerIgnore}
  THEN [emits |-> <<ManifestChange(file)>>, raised |-> FALSE]
  ELSE LET keys     == SelectSeq(SetToSeq(DOMAIN a.watching), LAMBDA k : StartsWith(file, k))
           refused  == \E i \in 1..Len(keys) : PathRejected(strict, Slice(file, Len(keys[i])))
           OfKey(k) == SelectSeq(SetToSeq(DOMAIN a.watching[k]),
                                 LAMBDA c : Ignores(a.watching[k][c], Slice(file, Len(k))))
           names    == Flatten([i \in 1..Len(keys) |-> OfKey(keys[i])])
           bad      == {i \in 1..Len(names) : ~Has(a.components, names[i])}
           upto     == IF bad = {} THEN Len(names)
                       ELSE (CHOOSE i \in bad : \A j \in bad : i <= j) - 1
       IN IF refused THEN [emits |-> <<>>, raised |-> TRUE]
          ELSE [emits  |-> [i \in 1..upto |->
                              ComponentChange(a.components[names[i]].name, file)],
                raised |-> bad # {}]

\* a filesystem change at `file`: every open subscription asks
\* checkIgnoreStatus and, when the path is watched, runs the 'all' handler
ChangeApplication(file) ==
  /\ Running /\ open # {}
  /\ \E strict \in BOOLEAN :
       LET status == CheckIgnoreStatusApplication(app, file, strict)
           h      == HandleEventApplication(app, file, strict)
           n      == IF status = "watched" THEN Cardinality(open) ELSE 0
       IN /\ last' = [file |-> file, reported |-> n,
                      emits |-> Flatten([i \in 1..n |-> h.emits])]
          /\ thrown' = (thrown \/ status = "raise" \/ (n > 0 /\ h.raised))
  /\ UNCHANGED <<tree, fsfail, app, run, open>>

NextApplication ==
  \/ Discover
  \/ RecursiveSearch
  \/ \E f \in Files : ReadIgnore(f)
  \/ \E f \in Files : ManifestRead(f)
  \/ \E c \in DOMAIN app.components : ValidateAndParseComponent(c)
  \/ \E r \in DOMAIN app.resources : ValidateResource(r)
  \/ ReloadGraph
  \/ WatcherClosed
  \/ \E file \in EventPaths : ChangeApplication(file)

SpecApplication == Init /\ [][NextApplication]_vars

\* ------------------------------------------------------- the exported entry
\* module.exports = (root, done) => { ... }: the Application is made from
\* the first argument alone and the second argument is called as done.

\* the ways a caller invokes the exported function
CallForms == {<<"root", "done">>, <<"root", "true", "done">>, <<"root", "false", "done">>}

\* the second argument is a function
DoneIsFunction(args) == args[2] = "done"

\* discovery(...args): new App(root), then app.discover
Entry(args) ==
  /\ Running /\ run.kind = "none"
  /\ Commit(Begin([app |-> NewApplication(FALSE),
                   run |-> [NewRun("entry", 1, Graph(app)) EXCEPT !.args = args],
                   open |-> open],
                  "findFiles", {rootPath}))
  /\ thrown' = thrown
  /\ Quiet

\* the callback the entry hands to app.discover: done(err) or done(null, app);
\* run.finished holds what done received
EntryCallback ==
  /\ Running /\ run.kind = "entry" /\ run.stage = "idle" /\ run.cb # <<>>
  /\ IF DoneIsFunction(run.args)
     THEN /\ run' = [run EXCEPT !.stage = "returned",
                                !.finished = {<<"done", run.cb[1],
                                                IF run.cb[1] = NoError THEN "app" ELSE "none">>}]
          /\ thrown' = thrown
     ELSE /\ run' = [run EXCEPT !.stage = "returned", !.finished = {}]
          /\ thrown' = TRUE
  /\ UNCHANGED <<app, open>>
  /\ Quiet

NextEntry ==
  \/ \E args \in CallForms : Entry(args)
  \/ FindFiles
  \/ \E f \in Files : ManifestRead(f)
  \/ \E c \in DOMAIN app.components : ValidateComponent(c)
  \/ \E r \in DOMAIN app.resources : ValidateResource(r)
  \/ EntryCallback

SpecEntry == Init /\ [][NextEntry]_vars

\* ------------------------------------------------- events, one after another
\* The 'all' handler is one synchronous function: EventEmitter.emit calls the
\* listeners before it returns, so a delivery is handled in one step.  Here
\* `last` is the log of the deliveries since the pipeline last moved:
\* last.reported counts the deliveries and every emission carries, in `seq`,
\* the number of the delivery that caused it.  The subscriptions are the ones
\* discover() calls open.

MaxEvents == 2

\* variant: the emissions of a delivery are put ahead of the ones already made
EmitAllAhead(log, emits, seq) ==
  [i \in 1..Len(emits) |-> [event |-> emits[i].event, component |-> emits[i].component,
                            file |-> emits[i].file, seq |-> seq]] \o log

\* this.emit(...) for every emission of the delivery, in order
EmitAll(log, emits, seq) ==
  log \o [i \in 1..Len(emits) |-> [event |-> emits[i].event, component |-> emits[i].component,
                                   file |-> emits[i].file, seq |-> seq]]

\* one subscription delivers an event for `file` to its 'all' handler
Deliver(file) ==
  /\ Running /\ open # {} /\ last.reported < MaxEvents
  /\ ~CheckIgnoreStatus(app, file)
  /\ LET h == HandleEvent(app, file)
     IN /\ last' = [file |-> file, reported |-> last.reported + 1,
                    emits |-> EmitAll(last.emits, h.emits, last.reported + 1)]
        /\ thrown' = (thrown \/ h.raised)
  /\ UNCHANGED <<tree, fsfail, app, run, open>>

NextEvents ==
  \/ Discover
  \/ FindFiles
  \/ \E f \in Files : ReadFile(f)
  \/ \E f \in Files : ManifestRead(f)
  \/ \E c \in DOMAIN app.components : ValidateComponent(c)
  \/ \E r \in DOMAIN app.resources : ValidateResource(r)
  \/ \E file \in EventPaths : Deliver(file)

SpecEvents == Init /\ [][NextEvents]_vars

\* --------------------------------------- Component.validate called directly

MaxDirectives == 2
MaxValidates == 2

\* one manifest line for every command of the vocabulary
CommandLines ==
  {L2("FROM", <<"node">>), L2("RUN", <<"build">>), L3("COPY", <<"lib">>, <<"lib">>),
   L3("ADD", <<".">>, <<".">>), L2("ENTRYPOINT", <<"run">>), L2("CMD", <<"run">>),
   L2("WORKDIR", <<"/">>), L2("USER", <<"node">>), L2("ENV", KV("PORT", "3000")),
   L2("EXPOSE", <<"8080">>), L2("LIFECYCLE", <<"predeploy">>), L2("CRON", <<"daily">>),
   L2("CPU", <<"0.5">>), L2("MEMORY", <<"256">>), L3("ROUTE", <<"/">>, <<"GET">>),
   L3("RESOURCE", KV("name", "db"), KV("type", "mysql")), L2("STATIC", <<"public">>),
   L2("ASSETS", <<"public">>), L2("TEST", <<"run">>), L2("SPECIAL", <<"x">>)}

ComponentTypes == {"service", "task", "static", "worker"}

RECURSIVE LineLists(_)
LineLists(n) ==
  IF n = 0 THEN {<<>>}
  ELSE LET shorter == LineLists(n - 1)
       IN shorter \cup {Append(ls, l) : ls \in {x \in shorter : Len(x) = n - 1},
                                        l \in CommandLines}

\* an application holding the one component "C" of a manifest
OneComponent(type, lines) ==
  ManifestDiscover(NewApplication(FALSE), ApiManifest,
                   <<L3("COMPONENT", <<"C">>, <<type>>)>> \o lines)

InitComponent ==
  /\ tree = 1
  /\ fsfail = <<>>
  /\ app \in {OneComponent(type, lines) :
                type \in ComponentTypes, lines \in LineLists(MaxDirectives)}
  /\ run = NewRun("validate", 0, Graph(app))
  /\ open = {}
  /\ last = NoChange
  /\ thrown = FALSE

\* component.validate(done)
ValidateCall ==
  /\ ~thrown /\ run.kind = "validate" /\ run.calls < MaxValidates
  /\ LET v == Validate(app.components["C"], app.resources, app.routes, app.objects)
     IN /\ app' = [app EXCEPT !.components["C"] = v.component, !.resources = v.registry,
                              !.routes = v.routes, !.objects = v.nextId]
        /\ run' = [run EXCEPT !.calls = @ + 1, !.stage = "validated",
                              !.prior = Graph(app),
                              !.cb = IF v.outcome = "throw" THEN @ ELSE Append(@, v.err)]
        /\ thrown' = (v.outcome = "throw")
  /\ UNCHANGED <<tree, fsfail, open, last>>

\* one more directive is added to the component before it is validated again
AppendDirective(line) ==
  /\ ~thrown /\ run.kind = "validate" /\ run.stage = "validated"
  /\ Len(app.components["C"].directives) <= MaxDirectives
  /\ app' = [app EXCEPT !.components["C"].directives =
               Append(@, NewDirective(line, ApiManifest, Len(@) + 1))]
  /\ run' = [run EXCEPT !.stage = "edited"]
  /\ UNCHANGED <<tree, fsfail, open, last, thrown>>

NextComponent ==
  \/ ValidateCall
  \/ \E line \in CommandLines : AppendDirective(line)

SpecComponent == InitComponent /\ [][NextComponent]_vars

\* ---------------------------------------- Resource.register called directly

MaxRegisters == 3

\* the RESOURCE lines that can be registered
ResourceLines ==
  {L2("RESOURCE", KV("name", "db")),
   L3("RESOURCE", KV("name", "db"), KV("type", "mysql")),
   L3("RESOURCE", KV("name", "db"), KV("type", "postgresql")),
   L3("RESOURCE", KV("name", "t"), KV("type", "dynamodb")),
   L4("RESOURCE", KV("name", "t"), KV("type", "dynamodb"), Setting("hashKeyName", "id")),
   L3("RESOURCE", KV("name", "t"), Setting("hashKeyType", "S")),
   L3("RESOURCE", KV("name", "t"), Setting("hashKeyType", "X")),
   L3("RESOURCE", KV("name", "t"), Setting("rangeKeyType", "N")),
   L3("RESOURCE", KV("name", "t"), Setting("rangeKeyType", "Z")),
   L3("RESOURCE", KV("name", "t"), Setting("color", "red"))}

InitResource ==
  /\ tree = 1
  /\ fsfail = <<>>
  /\ app = NewApplication(FALSE)
  /\ run = NewRun("register", 0, Graph(app))
  /\ open = {}
  /\ last = NoChange
  /\ thrown = FALSE

\* Resource.register(component, directive, done); run.finished holds
\* <<name, id>> for every object a register handed to done without an error
RegisterCall(line) ==
  /\ run.kind = "register" /\ run.calls < MaxRegisters
  /\ LET d == NewDirective(line, ApiManifest, run.calls + 1)
         r == Register(app.resources, app.objects, d)
     IN /\ app' = [app EXCEPT !.resources = r.registry, !.objects = r.nextId]
        /\ run' = [run EXCEPT !.calls = @ + 1, !.stage = "registered",
                              !.prior = Graph(app),
                              !.cb = <<r.err>>,
                              !.kept = {d},
                              !.finished = IF r.err = NoError
                                           THEN @ \cup {<<d.params.name, r.id>>} ELSE @]
  /\ UNCHANGED <<tree, fsfail, open, last, thrown>>

\* resource.validate(done)
ResourceValidateCall(name) ==
  /\ run.kind = "register" /\ run.stage = "registered"
  /\ LET v == ResourceValidate(app.resources[name])
     IN /\ app' = [app EXCEPT !.resources[name] = v.resource]
        /\ run' = [run EXCEPT !.stage = "validated", !.prior = Graph(app),
                              !.cb = <<v.err>>, !.kept = {name}]
  /\ UNCHANGED <<tree, fsfail, open, last, thrown>>

\* component.validate(done) for a service declaring two resources: both are
\* registered through async.map
DeclaringComponent(l1, l2) ==
  /\ run.kind = "register" /\ run.calls + 2 <= MaxRegisters
  /\ LET ds == ParseDirectives(<<L3("COMPONENT", <<"C">>, <<"service">>), l1, l2>>,
                               WebManifest)
         c  == NewComponent(ds, Dir(WebManifest))
         v  == Validate(c, app.resources, app.routes, app.objects)
     IN /\ app' = [app EXCEPT !.components = Put(@, "C", v.component),
                              !.resources = v.registry, !.routes = v.routes,
                              !.objects = v.nextId]
        /\ run' = [run EXCEPT !.calls = @ + 2, !.stage = "component",
                              !.prior = Graph(app), !.cb = <<v.err>>,
                              !.kept = {ds[2], ds[3]},
                              !.finished =
                                IF v.err = NoError
                                THEN @ \cup {<<ds[i].params.name, v.component.resources[i - 1]>> :
                                               i \in 2..3}
                                ELSE @]
  /\ UNCHANGED <<tree, fsfail, open, last, thrown>>

NextResource ==
  \/ \E line \in ResourceLines : RegisterCall(line)
  \/ \E l1, l2 \in ResourceLines : DeclaringComponent(l1, l2)
  \/ \E name \in DOMAIN app.resources : ResourceValidateCall(name)

SpecResource == InitResource /\ [][NextResource]_vars

\* ------------------------------------------------------- change attribution

Emitted(e) == \E i \in 1..Len(last.emits) : last.emits[i] = e

ChangeMade == last.file # <<>>

\* the change reached the 'all' handler of a subscription
ChangeReported == last.reported > 0

ManifestOrIgnoreName(file) == Base(file) \in {Noopfile, GitIgnore, DockerIgnore}

\* the source words of a component's ADD / COPY directives
Sources(c) ==
  LET ds == SelectSeq(c.directives, LAMBDA d : d.cmd \in {"ADD", "COPY"} /\ Len(d.args) = 2)
  IN [i \in 1..Len(ds) |-> ds[i].args[1]]

\* `file` lies in the directory of the manifest declaring c and, relative to
\* it, matches c's sources; a bare "." source matches every path
SourceMatch(c, file) ==
  /\ StartsWith(file, c.rootPath \o <<"/">>)
  /\ \/ \E i \in 1..Len(Sources(c)) : Sources(c)[i] = <<".">>
     \/ Ignores(IgnoreAdd(Sources(c)), Slice(file, Len(c.rootPath) + 1))

\* C1: a change at a path that is no manifest or ignore file emits
\* componentChange(C, P) exactly for the components C whose sources P matches
\* relative to the directory of C's manifest; in the tree of the example
\* (A at /app/api with `ADD . .`, B at /app/web with `ADD ./src ./src`) a
\* change to /app/web/src/index.js is attributed to B.
AttributionExact ==
  /\ (ChangeReported /\ ~ManifestOrIgnoreName(last.file)) =>
       \A c \in DOMAIN app.components :
         Emitted(ComponentChange(c, last.file)) <=> SourceMatch(app.components[c], last.file)
  /\ (tree = 1 /\ last.file = InDir("web", <<"src", "/", "index.js">>)) =>
       Emitted(ComponentChange("B", last.file))

\* C2: a change to a path named Noopfile, .gitignore or .dockerignore emits
\* manifestChange(path) and no componentChange, whatever the scope tables hold.
ManifestChangeAlways ==
  (ChangeMade /\ ManifestOrIgnoreName(last.file)) =>
    /\ Emitted(ManifestChange(last.file))
    /\ \A i \in 1..Len(last.emits) : last.emits[i].event # "componentChange"

\* the path lies under the directory of an ignore file that excludes it
ExcludedByIgnoreFile(a, file) ==
  \E key \in DOMAIN a.ignoring :
    /\ StartsWith(file, Dir(key) \o <<"/">>)
    /\ Ignores(a.ignoring[key], Slice(file, Len(Dir(key)) + 1))

\* C3: a change to a path that an ignore file above it excludes (debug.log
\* under a root ignore file holding `*.log`) produces no componentChange, also
\* when a blanket watch scope covers the path.
IgnoredNeverAttributed ==
  (ChangeMade /\ ExcludedByIgnoreFile(app, last.file)) =>
    \A i \in 1..Len(last.emits) : last.emits[i].event # "componentChange"

\* a blanket scope covers the changed path, the root ignore file excludes it,
\* and the change was handled
IgnoredUnderBlanketScope ==
  /\ last.file = InRoot(<<"debug", ".log">>)
  /\ RootIgnore \in DOMAIN app.ignoring
  /\ Ignores(app.ignoring[RootIgnore], <<"debug", ".log">>)
  /\ \E key \in DOMAIN app.watching : \E c \in DOMAIN app.watching[key] :
       /\ Dir(key) = rootPath
       /\ Ignores(app.watching[key][c], <<"debug", ".log">>)
  /\ open # {}
  /\ last.emits = <<>>

\* ---------------------------------------------------- directive legality

ValidatedComponent == app.components["C"]

\* the positions of the directives the component's type does not allow
IllegalAt(c) ==
  {i \in 1..Len(c.directives) :
     c.directives[i].cmd \notin types[c.type] /\ c.directives[i].cmd # "COMPONENT"}

LastReport == run.cb[Len(run.cb)]

\* C4: for a service, task or static component, validate reports no
\* ComponentError when every directive's command is allowed for the type
\* (COMPONENT apart), and otherwise reports the ComponentError of the first
\* disallowed directive in directive order: its command, file and line.
FirstIllegalDirectiveReported ==
  (run.kind = "validate" /\ run.stage = "validated" /\ ~thrown) =>
    LET c   == ValidatedComponent
        bad == IllegalAt(c)
    IN IF bad = {} THEN LastReport.name # "ComponentError"
       ELSE LET d == c.directives[CHOOSE i \in bad : \A j \in bad : i <= j]
            IN LastReport = [name |-> "ComponentError", cmd |-> d.cmd, type |-> c.type,
                             file |-> d.file, lineNumber |-> d.lineNumber]

\* a component validated cleanly, was given a disallowed directive after
\* another, later disallowed one could follow it, and failed on revalidation
RevalidatedWithIllegalDirective ==
  /\ run.kind = "validate" /\ run.stage = "validated" /\ Len(run.cb) = 2
  /\ run.cb[1] = NoError
  /\ run.cb[2].name = "ComponentError"
  /\ ValidatedComponent.type = "static"
  /\ Len(ValidatedComponent.directives) = 3
  /\ ValidatedComponent.directives[3].cmd = "CMD"
  /\ run.cb[2].cmd = "CMD" /\ run.cb[2].lineNumber = 3

\* ------------------------------------------------------ resource registry

\* the type of the first directive of `ds` that carries one
FirstType(ds) ==
  LET typed == {i \in 1..Len(ds) : ds[i].params.type # Undefined}
  IN IF typed = {} THEN "null"
     ELSE ds[CHOOSE i \in typed : \A j \in typed : i <= j].params.type

\* <<name, i>>: the i-th directive registered under `name` carries a type
\* other than the one recorded before it, and was registered by the last call
NewConflicts ==
  {p \in UNION {{<<n, i>> : i \in 1..Len(app.resources[n].directives)} :
                  n \in DOMAIN app.resources} :
     LET ds     == app.resources[p[1]].directives
         before == IF Has(run.prior.resources, p[1])
                   THEN Len(run.prior.resources[p[1]].directives) ELSE 0
         rec    == FirstType(SubSeq(ds, 1, p[2] - 1))
     IN /\ p[2] > before
        /\ ds[p[2]].params.type # Undefined
        /\ rec # "null"
        /\ rec # ds[p[2]].params.type}

\* C5: the registry holds one Resource object per name; every register that
\* succeeded handed out the registry's object for its name; a resource's type
\* is the type of the first directive that carried one; and a register call,
\* or a component's validate, reports a ResourceError exactly when a
\* directive it registered carries a type other than the recorded one.
RegistryShared ==
  (run.kind = "register") =>
    /\ \A n \in DOMAIN app.resources : app.resources[n].name = n
    /\ \A n1, n2 \in DOMAIN app.resources :
         app.resources[n1].id = app.resources[n2].id => n1 = n2
    /\ \A p \in run.finished :
         p[1] \in DOMAIN app.resources /\ app.resources[p[1]].id = p[2]
    /\ \A n \in DOMAIN app.resources :
         app.resources[n].type = FirstType(app.resources[n].directives)
    /\ (run.stage \in {"registered", "component"}) =>
         ((run.cb[1] # NoError /\ run.cb[1].name = "ResourceError"
                               /\ run.cb[1].kind = "AlreadyDeclared")
            <=> NewConflicts # {})

\* three declarations of db: untyped, mysql, postgresql; the first two share
\* one object typed mysql and the third is refused
SharedThenConflict ==
  /\ run.kind = "register" /\ run.stage = "registered" /\ run.calls = 3
  /\ Has(app.resources, "db")
  /\ Len(app.resources["db"].directives) = 3
  /\ app.resources["db"].directives[1].params.type = Undefined
  /\ app.resources["db"].type = "mysql"
  /\ run.finished = {<<"db", app.resources["db"].id>>}
  /\ run.cb = <<ResourceError("AlreadyDeclared", "db", "mysql")>>

\* --------------------------------------------------- resource validation

KeyTypes == {<<"S">>, <<"N">>, <<"B">>}

ValidatedResource == app.resources[CHOOSE n \in run.kept : TRUE]

DynamoValidated ==
  /\ run.kind = "register" /\ run.stage = "validated"
  /\ ValidatedResource.type = "dynamodb"

\* C6, as stated: a missing hashKeyName or hashKeyType is reported by name;
\* a hashKeyType outside {S, N, B} is reported as an invalid value; a present
\* hashKeyName with key types in {S, N, B} validates.
DynamoSchemaAsStated ==
  DynamoValidated =>
    LET s   == ValidatedResource.settings
        err == run.cb[1]
    IN /\ (~Has(s, "hashKeyName") \/ ~Has(s, "hashKeyType")) =>
            /\ err # NoError /\ err.kind = "MissingRequired"
            /\ err.detail \in {"hashKeyName", "hashKeyType"} \ DOMAIN s
       /\ (Has(s, "hashKeyType") /\ s["hashKeyType"] \notin KeyTypes) =>
            (err # NoError /\ err.kind = "InvalidValue")
       /\ (/\ Has(s, "hashKeyName")
           /\ Has(s, "hashKeyType") /\ s["hashKeyType"] \in KeyTypes
           /\ (Has(s, "rangeKeyType") => s["rangeKeyType"] \in KeyTypes)) =>
            err = NoError

\* C6: a missing hashKeyName or hashKeyType is reported by name; with
\* hashKeyName present, a hashKeyType outside {S, N, B} is reported as an
\* invalid value of hashKeyType; a present hashKeyName with key types in
\* {S, N, B} validates.
DynamoSchemaChecked ==
  DynamoValidated =>
    LET s   == ValidatedResource.settings
        err == run.cb[1]
    IN /\ (~Has(s, "hashKeyName") \/ ~Has(s, "hashKeyType")) =>
            /\ err # NoError /\ err.kind = "MissingRequired"
            /\ err.detail \in {"hashKeyName", "hashKeyType"} \ DOMAIN s
       /\ (/\ Has(s, "hashKeyName")
           /\ Has(s, "hashKeyType") /\ s["hashKeyType"] \notin KeyTypes) =>
            (err # NoError /\ err.kind = "InvalidValue" /\ err.detail = "hashKeyType")
       /\ (/\ Has(s, "hashKeyName")
           /\ Has(s, "hashKeyType") /\ s["hashKeyType"] \in KeyTypes
           /\ (Has(s, "rangeKeyType") => s["rangeKeyType"] \in KeyTypes)) =>
            err = NoError

\* a table with a hash key name and the hash key type X was validated and
\* refused for the value
InvalidHashKeyType ==
  /\ DynamoValidated
  /\ Has(ValidatedResource.settings, "hashKeyName")
  /\ Has(ValidatedResource.settings, "hashKeyType")
  /\ ValidatedResource.settings["hashKeyType"] = <<"X">>
  /\ run.cb = <<ResourceError("InvalidValue", "t", "hashKeyType")>>

\* ------------------------------------------------------- the graph exposed

ManifestFiles == {f \in Files : Base(f) = Noopfile}

\* the names of the components the manifests of the tree declare
DeclaredComponents ==
  UNION {{b[1].params.name : b \in
            {ComponentBlocks(ParseDirectives(Trees[tree][f], f))[i] :
               i \in 1..Len(ComponentBlocks(ParseDirectives(Trees[tree][f], f)))}} :
         f \in ManifestFiles}

\* a graph a successful discovery of the tree leaves: every manifest, every
\* declared component validated with its routes and resources resolved, and
\* every resource validated
GraphComplete(g) ==
  /\ {g.manifests[i] : i \in 1..Len(g.manifests)} = ManifestFiles
  /\ DOMAIN g.components = DeclaredComponents
  /\ \A c \in DOMAIN g.components :
       LET comp == g.components[c]
       IN /\ comp.type \in DOMAIN types
          /\ LegalityErrors(comp) = <<>>
          /\ Len(comp.routes) = Len(OfCmd(comp.directives, "ROUTE"))
          /\ Len(comp.resources) = Len(OfCmd(comp.directives, "RESOURCE"))
          /\ \A i \in 1..Len(comp.directives) :
               comp.directives[i].cmd = "RESOURCE" =>
                 Has(g.resources, comp.directives[i].params.name)
  /\ \A r \in DOMAIN g.resources :
       /\ ResourceValidate(g.resources[r]).err = NoError
       /\ ResourceValidate(g.resources[r]).resource = g.resources[r]

CallOver == run.kind \in {"discover", "reload"} /\ run.stage = "idle"

\* C7: after a discover() or reload() call that ended in failure the
\* application holds either the graph it held when the call was made or a
\* complete graph of the tree, never a partly built one.
NoPartialGraph ==
  (CallOver /\ run.failed) =>
    (Graph(app) = run.prior \/ GraphComplete(Graph(app)))

\* ------------------------------------------------------- the callback

\* C8: a discover() call that is over has invoked its callback exactly once,
\* with an error exactly when an item of a stage failed, and no call invokes
\* it more than once.
CallbackExactlyOnce ==
  /\ Len(run.cb) <= 1
  /\ (run.kind = "discover" /\ run.stage \in {"idle", "crashed"}) =>
       /\ Len(run.cb) = 1
       /\ (run.cb[1] = NoError) <=> ~run.failed

\* ------------------------------------------------------- the stage barrier

Begun == DOMAIN run.items

\* C9: a stage of the pipeline has begun only if the stage before it began
\* and every item of that stage completed without error; after a failure no
\* stage later than the failing one has begun; and the watcher of a call is
\* started only in its last stage.
StageBarrier ==
  (run.kind \in {"discover", "reload"}) =>
    /\ \A stage \in Begun :
         StageNo(stage) > 1 =>
           LET before == Stages[StageNo(stage) - 1]
           IN /\ before \in Begun
              /\ \A item \in run.items[before] : <<before, item>> \in run.finished
    /\ run.failed => \A stage \in Begun : StageNo(stage) <= StageNo(run.failedAt)
    /\ (app.watcher = run.calls) => "watchers" \in Begun

\* a watching discovery of two manifests and a resource ran through every
\* stage and started its watcher
AllStagesRan ==
  /\ CallOver /\ ~run.failed /\ run.cb = <<NoError>>
  /\ Begun = {Stages[i] : i \in 1..Len(Stages)}
  /\ Cardinality(run.items["parseFiles"]) >= 3
  /\ Cardinality(run.items["parseManifests"]) >= 2
  /\ Cardinality(run.items["validateComponents"]) >= 2
  /\ run.items["validateResources"] # {}
  /\ app.watcher = run.calls /\ app.watcher \in open

\* ------------------------------------------------------------------ reload

\* the tables a freshly constructed Application builds from the tree
FreshTables(flag) ==
  LET RECURSIVE Read(_, _)
      Read(a, fs) ==
        IF fs = <<>> THEN a
        ELSE Read(IF Base(Head(fs)) = Noopfile
                  THEN ParseManifest(a, Head(fs), Trees[tree][Head(fs)])
                  ELSE ParseIgnore(a, Head(fs), Trees[tree][Head(fs)]),
                  Tail(fs))
  IN IF flag THEN Read(NewApplication(flag), SetToSeq(Files)) ELSE NewApplication(flag)

\* C10: reload() on an application whose discover() has completed, watching
\* or not, runs to its callback without raising, and when it succeeds the
\* graph is a complete graph of the tree with every manifest held once and
\* the scope tables are those of a fresh discovery.
ReloadRebuilds ==
  /\ run.kind = "reload" => run.stage # "crashed"
  /\ (run.kind = "reload" /\ run.stage = "idle" /\ ~run.failed) =>
       /\ GraphComplete(Graph(app))
       /\ Len(app.manifests) = Cardinality(ManifestFiles)
       /\ app.ignoring = FreshTables(app.watch).ignoring
       /\ app.watching = FreshTables(app.watch).watching

\* --------------------------------------------------- reload and the watcher

\* C11: a reload of a watching application closes the subscription it holds
\* at once; while the close is pending the application is exactly as it was
\* when reload was called (graph and scope tables kept, no stage begun), and
\* from the close on, through the rebuild, the closed subscription is not
\* open and so delivers no event.
ReloadWaitsForClose ==
  /\ (run.kind = "reload" /\ run.stage = "closing") =>
       /\ Graph(app) = run.prior
       /\ app.watcher = run.closed
       /\ Begun = {}
       /\ run.cb = <<>>
  /\ (run.kind = "reload" /\ run.stage # "crashed") =>
       /\ run.closed # 0
       /\ run.closed \notin open
  /\ (run.kind = "reload" /\ "findFiles" \in Begun) => app.watcher # run.closed

\* a closing reload still holding both components and both scope tables
ClosePending ==
  /\ run.kind = "reload" /\ run.stage = "closing"
  /\ Cardinality(DOMAIN app.components) >= 2
  /\ DOMAIN app.watching # {} /\ DOMAIN app.ignoring # {}
  /\ app.watcher = run.closed /\ run.closed \notin open

\* ------------------------------------------------------- repeated discover

Members(list) == {list[i] : i \in 1..Len(list)}

\* the two graphs hold the same entities with the same field values, order
\* apart, and neither holds anything twice
SameEntities(g, h) ==
  /\ Members(g.manifests) = Members(h.manifests)
  /\ Len(g.manifests) = Len(h.manifests)
  /\ g.components = h.components
  /\ DOMAIN g.resources = DOMAIN h.resources
  /\ \A r \in DOMAIN g.resources :
       /\ g.resources[r].type = h.resources[r].type
       /\ g.resources[r].settings = h.resources[r].settings
       /\ Members(g.resources[r].directives) = Members(h.resources[r].directives)
       /\ Len(g.resources[r].directives) = Len(h.resources[r].directives)
  /\ Members(g.routes) = Members(h.routes)
  /\ Len(g.routes) = Len(h.routes)

\* C12: a discover() that succeeds on an application already holding the
\* complete graph of the tree (no reload in between) leaves a graph with the
\* same manifests, components, resources and routes, nothing duplicated.
SecondDiscoverSameGraph ==
  (run.kind = "discover" /\ CallOver /\ ~run.failed /\ GraphComplete(run.prior)) =>
    SameEntities(Graph(app), run.prior)

\* ------------------------------------------------------- the exported entry

\* C13: the exported function, called with (root, done) or with
\* (root, watch, done), ends by calling the caller's callback once, with a
\* failure alone or with no error and the Application holding the complete
\* validated graph; called with watch = true, the Application it hands over
\* has a running watcher.
EntryReports ==
  (run.kind = "entry" /\ run.stage = "returned") =>
    /\ ~thrown
    /\ Cardinality(run.finished) = 1
    /\ \A d \in run.finished :
         \/ d[2] # NoError /\ d[3] = "none"
         \/ d[2] = NoError /\ d[3] = "app" /\ GraphComplete(Graph(app))
    /\ (Len(run.args) = 3 /\ run.args[2] = "true" /\ run.cb = <<NoError>>) =>
         (app.watcher # 0 /\ app.watcher \in open)

\* ------------------------------------------------------ component settings

SettingCommands == {"EXPOSE", "LIFECYCLE", "CRON", "CPU", "MEMORY", "STATIC"}

\* no directive of the component changes a setting
PlainComponent(c) ==
  \A i \in 1..Len(c.directives) : c.directives[i].cmd \notin SettingCommands

ConstructedOrValid ==
  /\ run.kind = "validate" /\ ~thrown
  /\ \/ run.stage = "idle"
     \/ run.stage = "validated" /\ LastReport = NoError

\* C14: a component none of whose directives changes a setting has, right
\* after construction and after a successful validate, the settings port 80,
\* cpu 0.1 (100 thousandths) and memory 128 when it is a service, cpu 0.1 and
\* memory 128 and no port when it is a task, and no setting when it is static.
DefaultsKept ==
  (ConstructedOrValid /\ PlainComponent(ValidatedComponent)) =>
    LET c == ValidatedComponent
    IN /\ c.type = "service" =>
            c.settings = [port |-> 80, cpu |-> 100, memory |-> 128]
       /\ c.type = "task" => c.settings = [cpu |-> 100, memory |-> 128]
       /\ c.type = "static" => c.settings = EmptyMap

\* a task with an ENV and a RESOURCE directive validated and kept the defaults
TaskValidatedWithDefaults ==
  /\ ConstructedOrValid /\ run.stage = "validated" /\ run.calls = 2
  /\ ValidatedComponent.type = "task"
  /\ Len(ValidatedComponent.directives) = 3
  /\ ValidatedComponent.directives[2].cmd = "ENV"
  /\ ValidatedComponent.directives[3].cmd = "RESOURCE"
  /\ PlainComponent(ValidatedComponent)
  /\ DOMAIN ValidatedComponent.settings = {"cpu", "memory"}

\* --------------------------------------------------------------- end to end

OnEndToEndTree == Trees[tree] = TreeEndToEnd /\ fsfail = <<>>

\* C15: on the tree whose one manifest is COMPONENT api service,
\* ENV PORT=3000, EXPOSE 8080, RESOURCE name=db type=postgresql, a discovery
\* succeeds and leaves exactly the component api, a service with port 8080,
\* the default cpu and memory and the variable PORT, and exactly the resource
\* db of type postgresql, which validates without a schema error.
EndToEnd ==
  (OnEndToEndTree /\ CallOver) =>
    /\ run.cb = <<NoError>>
    /\ DOMAIN app.components = {"api"}
    /\ app.components["api"].name = "api"
    /\ app.components["api"].type = "service"
    /\ app.components["api"].settings = [port |-> 8080, cpu |-> 100, memory |-> 128]
    /\ DOMAIN app.components["api"].variables = {"PORT"}
    /\ app.components["api"].variables["PORT"].default = "3000"
    /\ DOMAIN app.resources = {"db"}
    /\ app.resources["db"].type = "postgresql"
    /\ ResourceValidate(app.resources["db"]).err = NoError
    /\ app.components["api"].resources = <<app.resources["db"].id>>

\* the first discovery of that tree is over
EndToEndDiscovered ==
  /\ OnEndToEndTree /\ CallOver /\ run.kind = "discover" /\ run.calls = 1
  /\ run.cb = <<NoError>>
  /\ app.components["api"].settings["port"] = 8080

\* ------------------------------------------------------- one event, one emit

\* C16: the handling of one delivered event emits componentChange(N, P) at
\* most once for each component name N, however many watch scopes match P.
EachComponentOnce ==
  (ChangeMade /\ last.reported = 1) =>
    \A i, j \in 1..Len(last.emits) :
      (last.emits[i].event = "componentChange" /\ last.emits[i] = last.emits[j]) => i = j

\* ------------------------------------------------------- the handler is safe

\* no watch scope matches the path of the change
Unmatched == Base(last.file) # Noopfile /\ ModifiedComponents(app, last.file) = <<>>

\* C17: handling a delivered event never raises; a path no watch scope matches
\* produces no emission, and every componentChange names a component of the
\* component table.
HandlerNeverRaises ==
  ChangeReported =>
    /\ ~thrown
    /\ Unmatched => last.emits = <<>>
    /\ \A i \in 1..Len(last.emits) :
         last.emits[i].event = "componentChange" =>
           \E c \in DOMAIN app.components : app.components[c].name = last.emits[i].component

\* ------------------------------------------------------- validate, twice

\* validate has been called twice on the component with no directive added
\* in between; run.prior is the graph the first call left
ValidatedTwice ==
  /\ run.kind = "validate" /\ run.calls = 2 /\ run.stage = "validated" /\ ~thrown
  /\ run.prior.components["C"].directives = app.components["C"].directives

\* C18: a second validate of a component with the same directives leaves its
\* settings, variables, routes and resources and the application's resource
\* registry, contributing directives included, as the first call left them,
\* and reports the same outcome.
ValidateIdempotent ==
  ValidatedTwice =>
    LET once  == run.prior.components["C"]
        twice == app.components["C"]
    IN /\ twice.settings = once.settings
       /\ twice.variables = once.variables
       /\ twice.routes = once.routes
       /\ twice.resources = once.resources
       /\ app.resources = run.prior.resources
       /\ run.cb[2] = run.cb[1]

\* ------------------------------------------------------- first write wins

\* the settings of the resource's contributing directives, in order
Occurrences(r) == Flatten([i \in 1..Len(r.directives) |-> r.directives[i].params.setting])

\* the positions in Occurrences(r) of the well-formed settings of key k
OccurrencesOf(r, k) ==
  {i \in 1..Len(Occurrences(r)) :
     SettingMatch(Occurrences(r)[i]).ok /\ SettingMatch(Occurrences(r)[i]).key = k}

FirstValue(r, k) ==
  SettingMatch(Occurrences(r)[CHOOSE i \in OccurrencesOf(r, k) :
                                \A j \in OccurrencesOf(r, k) : i <= j]).value

AllRegistered ==
  \A c \in DOMAIN app.components :
    LET ds == OfCmd(app.components[c].directives, "RESOURCE")
    IN \A i \in 1..Len(ds) :
         /\ Has(app.resources, ds[i].params.name)
         /\ \E j \in 1..Len(app.resources[ds[i].params.name].directives) :
              app.resources[ds[i].params.name].directives[j] = ds[i]

OnDynamoTree == Trees[tree] = TreeDynamo /\ fsfail = <<>>

\* C20: the validateResources stage begins only when the RESOURCE directives
\* of every component are registered; the dynamodb resource whose hashKeyName
\* comes from component A and whose hashKeyType comes from component B
\* validates, whichever of A and B is validated first.
SchemaAfterAllRegistered ==
  (run.kind \in {"discover", "reload"}) =>
    /\ "validateResources" \in Begun => AllRegistered
    /\ (OnDynamoTree /\ CallOver) =>
         /\ run.cb = <<NoError>>
         /\ <<"validateResources", "t">> \in run.finished
         /\ app.resources["t"].settings =
              ("hashKeyName" :> <<"id">>) @@ ("hashKeyType" :> <<"S">>)

\* the resource split between A and B has been validated in a call that
\* validated both components
SplitResourceValidated ==
  /\ OnDynamoTree /\ CallOver /\ run.cb = <<NoError>>
  /\ run.items["validateComponents"] = {"A", "B"}
  /\ <<"validateResources", "t">> \in run.finished
  /\ ResourceValidate(app.resources["t"]).err = NoError

\* ------------------------------------------------------- one event at a time

OnNoTypeTree == Trees[tree] = TreeNoType /\ fsfail = <<>>

\* C22: a resource no RESOURCE directive gave a type is never validated
\* without error, a call that leaves such a resource in the registry does not
\* report success, and the resource of the tree that declares only
\* RESOURCE name=db fails the call with a ResourceError.
TypelessResourceFails ==
  (run.kind \in {"discover", "reload"}) =>
    /\ \A r \in DOMAIN app.resources :
         <<"validateResources", r>> \in run.finished => app.resources[r].type # "null"
    /\ (CallOver /\ \E r \in DOMAIN app.resources : app.resources[r].type = "null") =>
         (run.failed /\ run.cb # <<NoError>>)
    /\ (OnNoTypeTree /\ CallOver) =>
         run.cb = <<ResourceError("UnknownType", "db", "null")>>

\* discovery of the tree with the typeless resource has failed in the
\* validateResources stage
TypelessResourceReported ==
  /\ OnNoTypeTree /\ CallOver /\ run.failed /\ run.failedAt = "validateResources"
  /\ app.resources["db"].type = "null"
  /\ run.cb = <<ResourceError("UnknownType", "db", "null")>>

\* ------------------------------------------------------- nothing built if illegal

\* the validate call just made reported a directive the type does not allow
IllegalReported ==
  /\ run.kind = "validate" /\ run.stage = "validated" /\ ~thrown
  /\ LastReport # NoError /\ LastReport.name = "ComponentError"

\* C23: a validate that fails the legality check registers no Resource and no
\* Route: the application's resource registry and route list and the
\* component's own routes and resources are as they were before the call.
IllegalBuildsNothing ==
  IllegalReported =>
    /\ app.resources = run.prior.resources
    /\ app.routes = run.prior.routes
    /\ app.components["C"].routes = run.prior.components["C"].routes
    /\ app.components["C"].resources = run.prior.components["C"].resources

\* a component validated with a RESOURCE, then given a directive its type
\* does not allow and validated again
IllegalAfterRegistered ==
  /\ IllegalReported /\ run.calls = 2
  /\ OfCmd(app.components["C"].directives, "RESOURCE") # <<>>
  /\ Has(app.resources, "db") /\ Len(app.resources["db"].directives) = 1
  /\ app.components["C"].resources # <<>>

\* ------------------------------------------------------- scopes and directories

\* `file` is a descendant of the directory `dir`
Inside(file, dir) == StartsWith(file, dir \o <<"/">>)

\* the manifests under which the watch-scope table lists the component
DeclaringManifests(c) == {m \in DOMAIN app.watching : c \in DOMAIN app.watching[m]}

\* C24: componentChange(C, P) is emitted only if P is a descendant of the
\* directory of a manifest that declares C; a path in a sibling directory
\* whose name starts with the same characters is not attributed to C.
WatchScopeInsideDirectory ==
  ChangeReported =>
    \A i \in 1..Len(last.emits) :
      last.emits[i].event = "componentChange" =>
        \E m \in DeclaringManifests(last.emits[i].component) : Inside(last.file, Dir(m))

\* the ignore scopes whose directory the path lies in
EnclosingIgnores(a, file) ==
  [key \in {k \in DOMAIN a.ignoring : Inside(file, Dir(k))} |-> a.ignoring[key]]

\* C25: a path checkIgnoreStatus reports as ignored is also ignored when only
\* the ignore files in its ancestor directories are consulted.
IgnoreScopeInsideDirectory ==
  (ChangeMade /\ CheckIgnoreStatus(app, last.file)) =>
    CheckIgnoreStatus([app EXCEPT !.ignoring = EnclosingIgnores(app, last.file)], last.file)

\* ------------------------------------------------------- the order of the decision

\* a watch scope of a directory the path lies in includes the path
IncludedByEnclosingWatch(a, file) ==
  \E key \in DOMAIN a.watching :
    /\ Inside(file, Dir(key))
    /\ \E c \in DOMAIN a.watching[key] :
         Ignores(a.watching[key][c], Slice(file, Len(Dir(key)) + 1))

\* the decision in the stated order, over the enclosing scopes
IgnoredAsStated(a, file) ==
  IF Includes(file, <<"/", ".git", "/">>) THEN TRUE
  ELSE IF file = rootPath \/ Base(file) = Noopfile THEN FALSE
  ELSE IF ExcludedByIgnoreFile(a, file) THEN TRUE
  ELSE ~IncludedByEnclosingWatch(a, file)

\* C26: a path containing /.git/ is ignored; otherwise the root path and a
\* path named Noopfile are not; otherwise a path an enclosing ignore scope
\* excludes is ignored; otherwise the path is not ignored iff an enclosing
\* watch scope includes it.
DecisionOrder ==
  ChangeMade => (CheckIgnoreStatus(app, last.file) <=> IgnoredAsStated(app, last.file))

\* ------------------------------------------------------- blanket inclusion

\* the component has an ADD or COPY directive whose source is a bare "."
HasBlanketSource(c) == \E i \in 1..Len(Sources(c)) : Sources(c)[i] = <<".">>

\* C27: once parseComponents has run for a component that has an ADD or COPY
\* directive with the source ".", the watch-scope table holds for it, under
\* its directory, the scope that includes every path.
BlanketScopeBuilt ==
  (run.kind \in {"discover", "reload"} /\ app.watch) =>
    \A c \in DOMAIN app.components :
      (<<"validateComponents", c>> \in run.finished /\ HasBlanketSource(app.components[c])) =>
        /\ Has(app.watching, app.components[c].rootPath)
        /\ Has(app.watching[app.components[c].rootPath], app.components[c].name)
        /\ app.watching[app.components[c].rootPath][app.components[c].name]
             = IgnoreAdd(<<<<"*">>>>)

\* ------------------------------------------------------- events during reload

\* C28: an event delivered after reload() was called and before the old
\* watcher has finished closing is handled without an error, and every
\* componentChange it emits names a component of the component table.
ReloadWindowSafe ==
  (ChangeMade /\ run.kind = "reload" /\ run.stage = "closing") =>
    /\ ~thrown
    /\ \A i \in 1..Len(last.emits) :
         last.emits[i].event = "componentChange" =>
           \E c \in DOMAIN app.components : app.components[c].name = last.emits[i].component

\* ------------------------------------------------------- watch flag off

IgnoreFiles == {f \in Files : Base(f) \in {GitIgnore, DockerIgnore}}

\* C29: with the watch flag off the ignore-scope and watch-scope tables stay
\* empty, no file is waiting to be read in the parseFiles task and no call
\* fails on an ignore file that cannot be read, the watcher stays null with no
\* subscription open, and nothing is emitted.
WatchOffNoScopes ==
  ~app.watch =>
    /\ app.ignoring = EmptyMap /\ app.watching = EmptyMap
    /\ run.stage = "parseFiles" => run.inflight = {}
    /\ (fsfail \in IgnoreFiles /\ run.failed) => run.cb # <<FsError>>
    /\ app.watcher = 0 /\ open = {}
    /\ last = NoChange

\* two discoveries with the watch flag off of a tree whose ignore file cannot
\* be read have both succeeded
WatchOffDiscoveredTwice ==
  /\ ~app.watch /\ CallOver /\ run.kind = "discover" /\ run.calls = 2
  /\ run.cb = <<NoError>>
  /\ fsfail \in IgnoreFiles
  /\ \E f \in Files : Base(f) = Noopfile

\* ------------------------------------------------------- one subscription

\* C30: at most one subscription made by the Application is open, and a
\* filesystem change reaches the 'all' handler once, so that each emission is
\* made once.
OneSubscription ==
  /\ Cardinality(open) <= 1
  /\ ChangeReported => last.reported = 1

\* ------------------------------------------------------- validate calls back

\* C31: every call of Component.validate, whatever the component's declared
\* type, has invoked its callback exactly once and has not thrown.
ValidateCallsBack ==
  run.kind = "validate" => (~thrown /\ Len(run.cb) = run.calls)

\* ------------------------------------------------------- side effects first

\* the last directive of the command among the component's directives
LastOf(c, cmd) == OfCmd(c.directives, cmd)[Len(OfCmd(c.directives, cmd))]

Declares(c, cmd) == OfCmd(c.directives, cmd) # <<>>

\* C32: after a first validate that reported a legality error the component's
\* variables hold every ENV key and its settings hold what every EXPOSE,
\* LIFECYCLE, CRON, CPU, MEMORY and STATIC directive sets, wherever the
\* directive stands relative to the illegal one.
SideEffectsBeforeError ==
  (IllegalReported /\ run.calls = 1) =>
    LET c == ValidatedComponent
        s == c.settings
    IN /\ \A i \in 1..Len(OfCmd(c.directives, "ENV")) :
            Has(c.variables, OfCmd(c.directives, "ENV")[i].params.key)
       /\ Declares(c, "EXPOSE") =>
            (Has(s, "port") /\ s["port"] = LastOf(c, "EXPOSE").params.port)
       /\ Declares(c, "CPU") =>
            (Has(s, "cpu") /\ s["cpu"] = ParseFloat(LastOf(c, "CPU").params.units))
       /\ Declares(c, "MEMORY") =>
            (Has(s, "memory") /\ s["memory"] = ParseInt(LastOf(c, "MEMORY").params.units))
       /\ Declares(c, "CRON") =>
            (Has(s, "cron") /\ s["cron"] = LastOf(c, "CRON").params)
       /\ Declares(c, "STATIC") =>
            (/\ Has(s, "contentDirectory")
             /\ s["contentDirectory"] = LastOf(c, "STATIC").params.contentDirectory)
       /\ Declares(c, "LIFECYCLE") =>
            (/\ Has(s, "lifecycles")
             /\ s["lifecycles"] = [i \in 1..Len(OfCmd(c.directives, "LIFECYCLE")) |->
                                     OfCmd(c.directives, "LIFECYCLE")[i].params.lifecycle])

\* a service with an illegal STATIC directive followed by EXPOSE: both have
\* left their mark
IllegalThenExpose ==
  /\ IllegalReported /\ run.calls = 1
  /\ ValidatedComponent.type = "service"
  /\ Len(ValidatedComponent.directives) = 3
  /\ ValidatedComponent.directives[2].cmd = "STATIC"
  /\ ValidatedComponent.directives[3].cmd = "EXPOSE"
  /\ LastReport.cmd = "STATIC"
  /\ Has(ValidatedComponent.settings, "contentDirectory")
  /\ ValidatedComponent.settings["port"] = 8080

\* ------------------------------------------------------- settings by type

\* the setting keys a successfully validated component of the type may hold
SettingKeys(type) ==
  CASE type = "service" -> {"port", "cpu", "memory"}
    [] type = "task"    -> {"cpu", "memory", "lifecycles", "cron"}
    [] OTHER            -> {}

ValidatedOk ==
  /\ run.kind = "validate" /\ run.stage = "validated" /\ ~thrown
  /\ LastReport = NoError

\* C33: a component on which validate has succeeded holds only the setting
\* keys of its type: port, cpu, memory for a service; cpu, memory, lifecycles,
\* cron for a task; none for a static component; and never contentDirectory.
SettingsLimitedByType ==
  ValidatedOk =>
    /\ DOMAIN ValidatedComponent.settings \subseteq SettingKeys(ValidatedComponent.type)
    /\ ~Has(ValidatedComponent.settings, "contentDirectory")

\* a task validated with a LIFECYCLE and a CRON directive holds all four keys
TaskWithAllKeys ==
  /\ ValidatedOk
  /\ ValidatedComponent.type = "task"
  /\ DOMAIN ValidatedComponent.settings = {"cpu", "memory", "lifecycles", "cron"}

====
